---- MODULE Spec2Model ----
(***************************************************************************)
(* Model of the ObsAct front end of src/main.py: DeviceLexer (an SLY       *)
(* lexer), the recursive-descent DeviceParser with its panic-mode          *)
(* recovery, and DeviceLanguageProcessor.analyze.  Source text is a         *)
(* sequence of one-character strings; a token is a record                  *)
(* [type, value, lineno, index] as SLY builds it.                          *)
(***************************************************************************)
EXTENDS Integers, Sequences, FiniteSets, TLC

(***************************************************************************)
(* Bounds of the model                                                     *)
(***************************************************************************)
\* largest number of command statements in a generated source
MaxCmds == 2
\* largest length of a free-form character string given to the lexer
MaxRaw == 3
\* largest number of analyze calls on one DeviceLanguageProcessor
MaxCalls == 2

(***************************************************************************)
(* Characters                                                              *)
(***************************************************************************)
Lower == {"a","b","c","d","e","f","g","h","i","j","k","l","m",
          "n","o","p","q","r","s","t","u","v","w","x","y","z"}
Upper == {"A","B","C","D","E","F","G","H","I","J","K","L","M",
          "N","O","P","Q","R","S","T","U","V","W","X","Y","Z"}
Digit == {"0","1","2","3","4","5","6","7","8","9"}
Letter == Lower \cup Upper
\* the characters the regular expression class \w matches
WordChar == Letter \cup Digit \cup {"_"}

DigitVal(c) ==
  CASE c = "0" -> 0 [] c = "1" -> 1 [] c = "2" -> 2 [] c = "3" -> 3
    [] c = "4" -> 4 [] c = "5" -> 5 [] c = "6" -> 6 [] c = "7" -> 7
    [] c = "8" -> 8 [] c = "9" -> 9

DigitChar(d) ==
  CASE d = 0 -> "0" [] d = 1 -> "1" [] d = 2 -> "2" [] d = 3 -> "3"
    [] d = 4 -> "4" [] d = 5 -> "5" [] d = 6 -> "6" [] d = 7 -> "7"
    [] d = 8 -> "8" [] d = 9 -> "9"

\* the slice text[a..b) with 0-based positions, as Python's text[a:b]
Slice(text, a, b) == [k \in 1..(b - a) |-> text[a + k]]

(***************************************************************************)
(* Token values.  Python gives a token an int, a bool or a str value; the  *)
(* three are kept apart by a tag so that 1, True and "1" never compare     *)
(* equal.                                                                  *)
(***************************************************************************)
IntVal(n)  == [kind |-> "int",  i |-> n, b |-> FALSE, s |-> <<>>]
BoolVal(b) == [kind |-> "bool", i |-> 0, b |-> b,     s |-> <<>>]
StrVal(s)  == [kind |-> "str",  i |-> 0, b |-> FALSE, s |-> s]

\* int(t.value) on a run of decimal digits
RECURSIVE ParseInt(_)
ParseInt(ds) ==
  IF ds = <<>> THEN 0
  ELSE 10 * ParseInt(SubSeq(ds, 1, Len(ds) - 1)) + DigitVal(ds[Len(ds)])

\* str(n) for a non-negative int
RECURSIVE IntToStr(_)
IntToStr(n) ==
  IF n < 10 THEN <<DigitChar(n)>>
  ELSE IntToStr(n \div 10) \o <<DigitChar(n % 10)>>

\* str(v) as the f-strings of the parser's messages apply it
StrOfValue(v) ==
  CASE v.kind = "int"  -> IntToStr(v.i)
    [] v.kind = "bool" -> IF v.b THEN <<"T","r","u","e">> ELSE <<"F","a","l","s","e">>
    [] v.kind = "str"  -> v.s

(***************************************************************************)
(* DeviceLexer: the token rules in the order of their definition, which is *)
(* the order of the alternatives of SLY's master regular expression.       *)
(***************************************************************************)
ignore == {" ", "\t"}

KeywordRules ==
  << [type |-> "DISPOSITIVO", pat |-> <<"d","i","s","p","o","s","i","t","i","v","o">>],
     [type |-> "SET",         pat |-> <<"s","e","t">>],
     [type |-> "SE",          pat |-> <<"s","e">>],
     [type |-> "ENTAO",       pat |-> <<"e","n","t","a","o">>],
     [type |-> "SENAO",       pat |-> <<"s","e","n","a","o">>],
     [type |-> "ENVIAR",      pat |-> <<"e","n","v","i","a","r">>],
     [type |-> "ALERTA",      pat |-> <<"a","l","e","r","t","a">>],
     [type |-> "PARA",        pat |-> <<"p","a","r","a">>],
     [type |-> "TODOS",       pat |-> <<"t","o","d","o","s">>],
     [type |-> "LIGAR",       pat |-> <<"l","i","g","a","r">>],
     [type |-> "DESLIGAR",    pat |-> <<"d","e","s","l","i","g","a","r">>] >>

\* AND, OPLOGIC (its alternatives in order) and the punctuation rules
SymbolRules ==
  << [type |-> "AND",         pat |-> <<"&","&">>],
     [type |-> "OPLOGIC",     pat |-> <<"=","=">>],
     [type |-> "OPLOGIC",     pat |-> <<"!","=">>],
     [type |-> "OPLOGIC",     pat |-> <<"<","=">>],
     [type |-> "OPLOGIC",     pat |-> <<">","=">>],
     [type |-> "OPLOGIC",     pat |-> <<"<">>],
     [type |-> "OPLOGIC",     pat |-> <<">">>],
     [type |-> "DOIS_PONTOS", pat |-> <<":">>],
     [type |-> "PONTO",       pat |-> <<".">>],
     [type |-> "VIRGULA",     pat |-> <<",">>],
     [type |-> "IGUAL",       pat |-> <<"=">>],
     [type |-> "ABRE_CHAVE",  pat |-> <<"{">>],
     [type |-> "FECHA_CHAVE", pat |-> <<"}">>],
     [type |-> "ABRE_PAREN",  pat |-> <<"(">>],
     [type |-> "FECHA_PAREN", pat |-> <<")">>] >>

\* the reserved words the OBSERVATION and NAMEDEVICE rules re-check
keywords ==
  { KeywordRules[k].pat : k \in 1..Len(KeywordRules) }
    \cup { <<"t","r","u","e">>, <<"f","a","l","s","e">> }

\* t.value.upper() for a reserved word
KeywordType(w) ==
  IF \E k \in 1..Len(KeywordRules) : KeywordRules[k].pat = w
  THEN KeywordRules[CHOOSE k \in 1..Len(KeywordRules) : KeywordRules[k].pat = w].type
  ELSE IF w = <<"t","r","u","e">> THEN "TRUE" ELSE "FALSE"

\* text[i:] starts with w (i is a 0-based position)
StartsWith(text, i, w) ==
  /\ i + Len(w) <= Len(text)
  /\ text[i + 1] = w[1]
  /\ \A k \in 2..Len(w) : text[i + k] = w[k]

\* \b at position j, just after a word character
WordBoundary(text, j) == j >= Len(text) \/ text[j + 1] \notin WordChar

\* the end of the longest run of characters of class cls that starts at i
RECURSIVE RunEnd(_, _, _)
RunEnd(text, i, cls) ==
  IF i < Len(text) /\ text[i + 1] \in cls THEN RunEnd(text, i + 1, cls) ELSE i

\* the position of the first '"' at or after i, Len(text) when there is none
RECURSIVE QuotePos(_, _)
QuotePos(text, i) ==
  IF i < Len(text) /\ text[i + 1] # "\"" THEN QuotePos(text, i + 1) ELSE i

NoMatch == [type |-> "NOMATCH", end |-> 0]

\* the first rule of rules (in order) that matches at i
RECURSIVE FirstRule(_, _, _, _, _)
FirstRule(rules, k, text, i, bounded) ==
  IF k > Len(rules) THEN NoMatch
  ELSE IF /\ StartsWith(text, i, rules[k].pat)
          /\ (bounded => WordBoundary(text, i + Len(rules[k].pat)))
       THEN [type |-> rules[k].type, end |-> i + Len(rules[k].pat)]
       ELSE FirstRule(rules, k + 1, text, i, bounded)

\* _master_re.match(text, index): the first alternative that matches
MasterMatch(text, i) ==
  LET c   == text[i + 1]
      \* a keyword rule starts with a letter, a symbol rule does not
      kw  == IF c \in Letter THEN FirstRule(KeywordRules, 1, text, i, TRUE) ELSE NoMatch
      sym == IF c \in Letter THEN NoMatch ELSE FirstRule(SymbolRules, 1, text, i, FALSE)
  IN  IF kw.type # "NOMATCH" THEN kw
      ELSE IF sym.type # "NOMATCH" THEN sym
      ELSE IF c \in Digit THEN [type |-> "NUM", end |-> RunEnd(text, i, Digit)]
      ELSE IF StartsWith(text, i, <<"t","r","u","e">>) THEN [type |-> "BOOL", end |-> i + 4]
      ELSE IF StartsWith(text, i, <<"f","a","l","s","e">>) THEN [type |-> "BOOL", end |-> i + 5]
      ELSE IF c = "\"" /\ QuotePos(text, i + 1) < Len(text)
           THEN [type |-> "MSG", end |-> QuotePos(text, i + 1) + 1]
      ELSE IF c \in Letter THEN [type |-> "OBSERVATION", end |-> RunEnd(text, i, WordChar)]
      \* NAMEDEVICE is defined after OBSERVATION, which matches wherever it does
      ELSE IF c \in Letter THEN [type |-> "NAMEDEVICE", end |-> RunEnd(text, i, Letter)]
      ELSE IF c = "\n" THEN [type |-> "ignore_newline", end |-> RunEnd(text, i, {"\n"})]
      ELSE NoMatch

\* mutant of TokenValue: a boolean becomes the integer 1 or 0
TokenValue_BoolAsInt(type, lexeme) ==
  CASE type = "NUM"  -> IntVal(ParseInt(lexeme))
    [] type = "BOOL" -> IntVal(IF lexeme = <<"t","r","u","e">> THEN 1 ELSE 1 - 1)
    [] type = "MSG"  -> StrVal(SubSeq(lexeme, 2, Len(lexeme) - 1))
    [] OTHER         -> StrVal(lexeme)

\* the token functions NUM, BOOL, MSG, OBSERVATION applied to the matched text
TokenValue(type, lexeme) ==
  CASE type = "NUM"  -> IntVal(ParseInt(lexeme))
    [] type = "BOOL" -> BoolVal(lexeme = <<"t","r","u","e">>)
    [] type = "MSG"  -> StrVal(SubSeq(lexeme, 2, Len(lexeme) - 1))
    [] OTHER         -> StrVal(lexeme)

\* mutant of TokenType: a word made of letters only is a NAMEDEVICE
TokenType_LettersAsNameDevice(type, lexeme) ==
  IF type = "OBSERVATION" /\ lexeme \in keywords THEN KeywordType(lexeme)
  ELSE IF type = "OBSERVATION" /\ \A k \in 1..Len(lexeme) : lexeme[k] \in Letter
  THEN "NAMEDEVICE"
  ELSE type

\* the functions OBSERVATION and NAMEDEVICE: a reserved word takes its own type
TokenType(type, lexeme) ==
  IF type \in {"OBSERVATION", "NAMEDEVICE"} /\ lexeme \in keywords
  THEN KeywordType(lexeme)
  ELSE type

Token(type, value, lineno, index) ==
  [type |-> type, value |-> value, lineno |-> lineno, index |-> index]

\* the position after the ignored characters that start at i
SkipIgnored(text, i) == RunEnd(text, i, ignore)

\* mutants of ErrorAdvance: the scan skips two characters; the scan does
\* not move
ErrorAdvance_Two == 1 + 1
ErrorAdvance_Zero == 1 - 1

\* DeviceLexer.error: how far the scan moves past an illegal character
ErrorAdvance == 1

(***************************************************************************)
(* One iteration of the loop of Lexer.tokenize after the ignored           *)
(* characters: a token, a newline run, an illegal character, or the end.   *)
(***************************************************************************)
LexOne(text, index0, lineno) ==
  LET Matched(index, m) ==
        IF m.type = "NOMATCH"
        THEN [kind |-> "error", index |-> index + ErrorAdvance, lineno |-> lineno,
              tok |-> Token("ERROR", StrVal(<<text[index + 1]>>), lineno, index)]
        ELSE IF m.type = "ignore_newline"
        THEN [kind |-> "newline", index |-> m.end,
              lineno |-> lineno + (m.end - index),
              tok |-> Token("ignore_newline", StrVal(<<>>), lineno, index)]
        ELSE LET lexeme == Slice(text, index, m.end)
             IN  [kind |-> "token", index |-> m.end, lineno |-> lineno,
                  tok |-> Token(TokenType(m.type, lexeme),
                                TokenValue(m.type, lexeme), lineno, index)]
      Scan(index) ==
        IF index >= Len(text)
        THEN [kind |-> "eof", index |-> index, lineno |-> lineno,
              tok |-> Token("EOF", StrVal(<<>>), lineno, index)]
        ELSE Matched(index, MasterMatch(text, index))
  IN  Scan(SkipIgnored(text, index0))

\* list(lexer.tokenize(text)): the tokens of the whole text
RECURSIVE TokenizeFrom(_, _, _)
TokenizeFrom(text, index, lineno) ==
  LET Rest(r) ==
        IF r.kind = "eof" THEN <<>>
        ELSE IF r.kind = "token" THEN <<r.tok>> \o TokenizeFrom(text, r.index, r.lineno)
        ELSE TokenizeFrom(text, r.index, r.lineno)
  IN  Rest(LexOne(text, index, lineno))

Tokenize(text) == TokenizeFrom(text, 0, 1)

(***************************************************************************)
(* AST nodes (the constructors of the node classes).  An optional string   *)
(* (Python's None or a str) is a record [some, s].                         *)
(***************************************************************************)
NoneNode == [node |-> "None"]
NoneStr  == [some |-> FALSE, s |-> <<>>]
SomeStr(s) == [some |-> TRUE, s |-> s]

Program(devices, commands) ==
  [node |-> "Program", devices |-> devices, commands |-> commands, line_number |-> 0]
DeviceList(devices) ==
  [node |-> "DeviceList", devices |-> devices, line_number |-> 0]
\* mutant of Device: the observation is not stored
Device_NoObservation(name, observation, line_number) ==
  [node |-> "Device", name |-> name, observation |-> [some |-> FALSE, s |-> <<>>],
   line_number |-> line_number]
Device(name, observation, line_number) ==
  [node |-> "Device", name |-> name, observation |-> observation,
   line_number |-> line_number]
CommandList(commands) ==
  [node |-> "CommandList", commands |-> commands, line_number |-> 0]
Attribution(observation, value, line_number) ==
  [node |-> "Attribution", observation |-> observation, value |-> value,
   line_number |-> line_number]
ObservationAction(condition, then_action, else_action, line_number) ==
  [node |-> "ObservationAction", condition |-> condition, then_action |-> then_action,
   else_action |-> else_action, line_number |-> line_number]
\* mutant of Observation: the next link is not stored
Observation_NoNext(observation, operator, value, next_obs, line_number) ==
  [node |-> "Observation", observation |-> observation, operator |-> operator,
   value |-> value, next_obs |-> [node |-> "None"], line_number |-> line_number]
Observation(observation, operator, value, next_obs, line_number) ==
  [node |-> "Observation", observation |-> observation, operator |-> operator,
   value |-> value, next_obs |-> next_obs, line_number |-> line_number]
Variable(value, line_number) ==
  [node |-> "Variable", value |-> value, line_number |-> line_number]
SimpleAction(action_type, device, line_number) ==
  [node |-> "SimpleAction", action_type |-> action_type, device |-> device,
   line_number |-> line_number]
AlertAction(message, device, observation, line_number) ==
  [node |-> "AlertAction", message |-> message, device |-> device,
   observation |-> observation, line_number |-> line_number]
BroadcastAlertAction(message, devices, line_number) ==
  [node |-> "BroadcastAlertAction", message |-> message, devices |-> devices,
   line_number |-> line_number]
DeviceNameList(devices, line_number) ==
  [node |-> "DeviceNameList", devices |-> devices, line_number |-> line_number]

(***************************************************************************)
(* Exceptions.  A ParseError carries its message as a record of the parts  *)
(* that the message string is formatted from (the tag names the format),   *)
(* so that two messages are equal exactly when the strings are equal.      *)
(***************************************************************************)
NoExc == [exc |-> "none", tag |-> "", expected |-> "", foundType |-> "",
          found |-> <<>>, line |-> 0, items |-> <<>>]
ParseError(tag, expected, foundType, found, line) ==
  [exc |-> "ParseError", tag |-> tag, expected |-> expected, foundType |-> foundType,
   found |-> found, line |-> line, items |-> <<>>]
\* ParseError(head + "\n".join(errors)): a message that lists the errors
ParseErrorList(tag, errs) ==
  [exc |-> "ParseError", tag |-> tag, expected |-> "", foundType |-> "",
   found |-> <<>>, line |-> 0, items |-> errs]
\* self.current_token.value evaluated when current_token is None
AttributeError ==
  [exc |-> "AttributeError", tag |-> "NoneType has no attribute", expected |-> "",
   foundType |-> "", found |-> <<>>, line |-> 0, items |-> <<>>]

\* ParseError.__str__: the line is shown only when it is positive
StrOfError(e) ==
  [prefix |-> 0, line |-> e.line, tag |-> e.tag, expected |-> e.expected,
   foundType |-> e.foundType, found |-> e.found, items |-> e.items]

\* the result of a parsing method: a node and the new cursor, or an
\* exception raised with the cursor at pos
Ok(pos, node) == [ok |-> TRUE, pos |-> pos, node |-> node, exc |-> NoExc]
Raise(pos, exc) == [ok |-> FALSE, pos |-> pos, node |-> NoneNode, exc |-> exc]

\* In the parsing methods below, Then(r, K) stands for the statements K that
\* follow a call with result r: they run when the call returned, and are
\* skipped, the exception propagating, when it raised.

(***************************************************************************)
(* DeviceParser: cursor helpers                                            *)
(***************************************************************************)
NoToken == Token("None", StrVal(<<>>), 0, 0)
HasToken(toks, pos) == pos < Len(toks)
\* self.current_token for current_token_index = pos
CurrentToken(toks, pos) == IF pos < Len(toks) THEN toks[pos + 1] ELSE NoToken
\* self.current_token.lineno if self.current_token else 0
LineHere(toks, pos) == CurrentToken(toks, pos).lineno

match_token(toks, pos, type) == HasToken(toks, pos) /\ toks[pos + 1].type = type

\* the format of the message of consume_token for a token of another
\* type: "Expected '..' but found '..' ('..')" and, for three expected
\* types, a suggestion
error_msg(expected_type) ==
  CASE expected_type = "PONTO" ->
         "expected but found. Commands must end with a period (.)"
    [] expected_type = "DOIS_PONTOS" ->
         "expected but found. Device declarations require a colon (:)"
    [] expected_type = "IGUAL" ->
         "expected but found. Assignments require an equals sign (=)"
    [] OTHER -> "expected but found"

\* mutant of consume_token: the error does not carry the line of the token
consume_token_NoLine(toks, pos, expected) ==
  IF ~HasToken(toks, pos)
  THEN IF expected # ""
       THEN Raise(pos, ParseError("expected but reached end of input", expected, "", <<>>, 0))
       ELSE Raise(pos, ParseError("unexpected end of input", "", "", <<>>, 0))
  ELSE LET t == toks[pos + 1]
       IN  IF expected # "" /\ t.type # expected
           THEN Raise(pos, ParseError(error_msg(expected), expected, t.type,
                                      StrOfValue(t.value), 0))
           ELSE Ok(pos + 1, t)

\* consume_token(expected_type); expected = "" stands for no expected type
consume_token(toks, pos, expected) ==
  IF ~HasToken(toks, pos)
  THEN IF expected # ""
       THEN Raise(pos, ParseError("expected but reached end of input", expected, "", <<>>, 0))
       ELSE Raise(pos, ParseError("unexpected end of input", "", "", <<>>, 0))
  ELSE LET t == toks[pos + 1]
       IN  IF expected # "" /\ t.type # expected
           THEN Raise(pos, ParseError(error_msg(expected), expected, t.type,
                                      StrOfValue(t.value), t.lineno))
           ELSE Ok(pos + 1, t)

\* raise ParseError(f"... '{self.current_token.value}'", self.current_token.lineno, ...)
RaiseFound(toks, pos, tag) ==
  IF ~HasToken(toks, pos) THEN Raise(pos, AttributeError)
  ELSE Raise(pos, ParseError(tag, "", "", StrOfValue(toks[pos + 1].value),
                             toks[pos + 1].lineno))

\* the device-name alternative: NAMEDEVICE, else OBSERVATION, else an error
device_name(toks, pos) ==
  IF match_token(toks, pos, "NAMEDEVICE") THEN consume_token(toks, pos, "NAMEDEVICE")
  ELSE IF match_token(toks, pos, "OBSERVATION") THEN consume_token(toks, pos, "OBSERVATION")
  ELSE RaiseFound(toks, pos, "expected device name but found")

(***************************************************************************)
(* DeviceParser: the device section                                        *)
(***************************************************************************)
\* mutant of parse_device: the name is taken from the token before the name
parse_device_NameFromColon(toks, pos) ==
  LET line_number == LineHere(toks, pos)
      Then(r, K(_)) == IF r.ok THEN K(r) ELSE r
  IN  Then(consume_token(toks, pos, "DISPOSITIVO"), LAMBDA r1 :
      Then(consume_token(toks, r1.pos, "DOIS_PONTOS"), LAMBDA r2 :
      Then(device_name(toks, r2.pos), LAMBDA r3 :
        IF match_token(toks, r3.pos, "VIRGULA")
        THEN Then(consume_token(toks, r3.pos, "VIRGULA"), LAMBDA r4 :
             Then(consume_token(toks, r4.pos, "OBSERVATION"), LAMBDA r5 :
               Ok(r5.pos, Device(r2.node.value.s, SomeStr(r5.node.value.s),
                                 line_number))))
        ELSE Ok(r3.pos, Device(r2.node.value.s, NoneStr, line_number)))))

parse_device(toks, pos) ==
  LET line_number == LineHere(toks, pos)
      Then(r, K(_)) == IF r.ok THEN K(r) ELSE r
  IN  Then(consume_token(toks, pos, "DISPOSITIVO"), LAMBDA r1 :
      Then(consume_token(toks, r1.pos, "DOIS_PONTOS"), LAMBDA r2 :
      Then(device_name(toks, r2.pos), LAMBDA r3 :
        IF match_token(toks, r3.pos, "VIRGULA")
        THEN Then(consume_token(toks, r3.pos, "VIRGULA"), LAMBDA r4 :
             Then(consume_token(toks, r4.pos, "OBSERVATION"), LAMBDA r5 :
               Ok(r5.pos, Device(r3.node.value.s, SomeStr(r5.node.value.s),
                                 line_number))))
        ELSE Ok(r3.pos, Device(r3.node.value.s, NoneStr, line_number)))))

\* the loop "while self.match_token('DISPOSITIVO')" of parse_devices
RECURSIVE MoreDevices(_, _, _)
MoreDevices(toks, pos, devices) ==
  LET Then(r, K(_)) == IF r.ok THEN K(r) ELSE r IN
  IF match_token(toks, pos, "DISPOSITIVO")
  THEN Then(parse_device(toks, pos), LAMBDA r :
         MoreDevices(toks, r.pos, Append(devices, r.node)))
  ELSE Ok(pos, DeviceList(devices))

parse_devices(toks, pos) ==
  LET Then(r, K(_)) == IF r.ok THEN K(r) ELSE r IN
  IF ~match_token(toks, pos, "DISPOSITIVO")
  THEN Raise(pos, ParseError("expected dispositivo at start of program", "", "", <<>>,
                             LineHere(toks, pos)))
  ELSE Then(parse_device(toks, pos), LAMBDA r :
         MoreDevices(toks, r.pos, <<r.node>>))

(***************************************************************************)
(* DeviceParser: commands                                                  *)
(***************************************************************************)
parse_variable(toks, pos) ==
  LET line_number == LineHere(toks, pos)
      Then(r, K(_)) == IF r.ok THEN K(r) ELSE r
  IN  IF match_token(toks, pos, "NUM")
      THEN Then(consume_token(toks, pos, "NUM"), LAMBDA r :
             Ok(r.pos, Variable(r.node.value, line_number)))
      ELSE IF match_token(toks, pos, "BOOL")
      THEN Then(consume_token(toks, pos, "BOOL"), LAMBDA r :
             Ok(r.pos, Variable(r.node.value, line_number)))
      ELSE RaiseFound(toks, pos, "expected number or boolean, found")

parse_attribution(toks, pos) ==
  LET line_number == LineHere(toks, pos)
      Then(r, K(_)) == IF r.ok THEN K(r) ELSE r
  IN  Then(consume_token(toks, pos, "SET"), LAMBDA r1 :
      Then(consume_token(toks, r1.pos, "OBSERVATION"), LAMBDA r2 :
      Then(consume_token(toks, r2.pos, "IGUAL"), LAMBDA r3 :
      Then(parse_variable(toks, r3.pos), LAMBDA r4 :
        Ok(r4.pos, Attribution(r2.node.value.s, r4.node, line_number))))))

\* the token that joins a comparison to the next one
ChainToken == "AND"

RECURSIVE parse_observation(_, _)
parse_observation(toks, pos) ==
  LET line_number == LineHere(toks, pos)
      Then(r, K(_)) == IF r.ok THEN K(r) ELSE r
  IN  Then(consume_token(toks, pos, "OBSERVATION"), LAMBDA r1 :
      Then(consume_token(toks, r1.pos, "OPLOGIC"), LAMBDA r2 :
      Then(parse_variable(toks, r2.pos), LAMBDA r3 :
        IF match_token(toks, r3.pos, ChainToken)
        THEN Then(consume_token(toks, r3.pos, "AND"), LAMBDA r4 :
             Then(parse_observation(toks, r4.pos), LAMBDA r5 :
               Ok(r5.pos, Observation(r1.node.value.s, r2.node.value.s,
                                      r3.node, r5.node, line_number))))
        ELSE Ok(r3.pos, Observation(r1.node.value.s, r2.node.value.s,
                                    r3.node, NoneNode, line_number)))))

\* the loop "while self.match_token('VIRGULA')" of parse_device_list
RECURSIVE MoreDeviceNames(_, _, _, _)
MoreDeviceNames(toks, pos, devices, line_number) ==
  LET Then(r, K(_)) == IF r.ok THEN K(r) ELSE r IN
  IF match_token(toks, pos, "VIRGULA")
  THEN Then(consume_token(toks, pos, "VIRGULA"), LAMBDA r1 :
       Then(device_name(toks, r1.pos), LAMBDA r2 :
         MoreDeviceNames(toks, r2.pos, Append(devices, r2.node.value.s),
                         line_number)))
  ELSE Ok(pos, DeviceNameList(devices, line_number))

\* mutant of parse_device_list: the first name is not kept
parse_device_list_DropsFirst(toks, pos) ==
  LET line_number == LineHere(toks, pos)
      Then(r, K(_)) == IF r.ok THEN K(r) ELSE r
  IN  Then(device_name(toks, pos), LAMBDA r :
        MoreDeviceNames(toks, r.pos, <<>>, line_number))

parse_device_list(toks, pos) ==
  LET line_number == LineHere(toks, pos)
      Then(r, K(_)) == IF r.ok THEN K(r) ELSE r
  IN  Then(device_name(toks, pos), LAMBDA r :
        MoreDeviceNames(toks, r.pos, <<r.node.value.s>>, line_number))

\* the tail of an alert after FECHA_PAREN: the broadcast form or one device
AlertTarget(toks, pos, message, observation, line_number) ==
  LET Then(r, K(_)) == IF r.ok THEN K(r) ELSE r IN
  IF match_token(toks, pos, "PARA")
  THEN Then(consume_token(toks, pos, "PARA"), LAMBDA r1 :
       Then(consume_token(toks, r1.pos, "TODOS"), LAMBDA r2 :
       Then(consume_token(toks, r2.pos, "DOIS_PONTOS"), LAMBDA r3 :
       Then(parse_device_list(toks, r3.pos), LAMBDA r4 :
         Ok(r4.pos, BroadcastAlertAction(message, r4.node, line_number))))))
  ELSE Then(device_name(toks, pos), LAMBDA r :
         Ok(r.pos, AlertAction(message, r.node.value.s, observation, line_number)))

\* mutant of AlertArguments: the observation is parsed and not kept
AlertArguments_DropsObservation(toks, pos, message, line_number) ==
  LET Then(r, K(_)) == IF r.ok THEN K(r) ELSE r IN
  IF match_token(toks, pos, "VIRGULA")
  THEN Then(consume_token(toks, pos, "VIRGULA"), LAMBDA r1 :
       Then(consume_token(toks, r1.pos, "OBSERVATION"), LAMBDA r2 :
       Then(consume_token(toks, r2.pos, "FECHA_PAREN"), LAMBDA r3 :
         AlertTarget(toks, r3.pos, message, NoneStr, line_number))))
  ELSE Then(consume_token(toks, pos, "FECHA_PAREN"), LAMBDA r3 :
         AlertTarget(toks, r3.pos, message, NoneStr, line_number))

\* the part of an alert after the MSG token: the optional ", observation",
\* FECHA_PAREN and the target
AlertArguments(toks, pos, message, line_number) ==
  LET Then(r, K(_)) == IF r.ok THEN K(r) ELSE r IN
  IF match_token(toks, pos, "VIRGULA")
  THEN Then(consume_token(toks, pos, "VIRGULA"), LAMBDA r1 :
       Then(consume_token(toks, r1.pos, "OBSERVATION"), LAMBDA r2 :
       Then(consume_token(toks, r2.pos, "FECHA_PAREN"), LAMBDA r3 :
         AlertTarget(toks, r3.pos, message, SomeStr(r2.node.value.s),
                     line_number))))
  ELSE Then(consume_token(toks, pos, "FECHA_PAREN"), LAMBDA r3 :
         AlertTarget(toks, r3.pos, message, NoneStr, line_number))

parse_action(toks, pos) ==
  LET line_number == LineHere(toks, pos)
      Then(r, K(_)) == IF r.ok THEN K(r) ELSE r
  IN  IF match_token(toks, pos, "LIGAR") \/ match_token(toks, pos, "DESLIGAR")
      THEN Then(consume_token(toks, pos, ""), LAMBDA r1 :
           Then(device_name(toks, r1.pos), LAMBDA r2 :
             Ok(r2.pos, SimpleAction(r1.node.value.s, r2.node.value.s, line_number))))
      ELSE IF match_token(toks, pos, "ENVIAR")
      THEN Then(consume_token(toks, pos, "ENVIAR"), LAMBDA r1 :
           Then(consume_token(toks, r1.pos, "ALERTA"), LAMBDA r2 :
           Then(consume_token(toks, r2.pos, "ABRE_PAREN"), LAMBDA r3 :
           Then(consume_token(toks, r3.pos, "MSG"), LAMBDA r4 :
             AlertArguments(toks, r4.pos, r4.node.value.s, line_number)))))
      ELSE RaiseFound(toks, pos, "expected action, found")

\* mutant of ElseAction: the action after "senao" is parsed and not kept
ElseAction_Dropped(toks, pos) ==
  LET Then(r, K(_)) == IF r.ok THEN K(r) ELSE r IN
  IF match_token(toks, pos, "SENAO")
  THEN Then(consume_token(toks, pos, "SENAO"), LAMBDA r :
       Then(parse_action(toks, r.pos), LAMBDA r2 : Ok(r2.pos, NoneNode)))
  ELSE Ok(pos, NoneNode)

\* the optional "senao ACT" of parse_observation_action
ElseAction(toks, pos) ==
  LET Then(r, K(_)) == IF r.ok THEN K(r) ELSE r IN
  IF match_token(toks, pos, "SENAO")
  THEN Then(consume_token(toks, pos, "SENAO"), LAMBDA r : parse_action(toks, r.pos))
  ELSE Ok(pos, NoneNode)

parse_observation_action(toks, pos) ==
  LET line_number == LineHere(toks, pos)
      Then(r, K(_)) == IF r.ok THEN K(r) ELSE r
  IN  Then(consume_token(toks, pos, "SE"), LAMBDA r1 :
      Then(parse_observation(toks, r1.pos), LAMBDA r2 :
      Then(consume_token(toks, r2.pos, "ENTAO"), LAMBDA r3 :
      Then(parse_action(toks, r3.pos), LAMBDA r4 :
      Then(ElseAction(toks, r4.pos), LAMBDA r5 :
        Ok(r5.pos, ObservationAction(r2.node, r4.node, r5.node, line_number)))))))

match_token_for_command(toks, pos) ==
  \/ match_token(toks, pos, "SET") \/ match_token(toks, pos, "SE")
  \/ match_token(toks, pos, "LIGAR") \/ match_token(toks, pos, "DESLIGAR")
  \/ match_token(toks, pos, "ENVIAR")

parse_command(toks, pos) ==
  IF match_token(toks, pos, "SET") THEN parse_attribution(toks, pos)
  ELSE IF match_token(toks, pos, "SE") THEN parse_observation_action(toks, pos)
  ELSE IF \/ match_token(toks, pos, "LIGAR") \/ match_token(toks, pos, "DESLIGAR")
          \/ match_token(toks, pos, "ENVIAR")
       THEN parse_action(toks, pos)
  ELSE RaiseFound(toks, pos, "unexpected token in command")

\* the token type every command must be followed by
Terminator == "PONTO"

\* the body of the try block of parse_commands: a command and its period
\* mutant of CommandAndPeriod: a command need not end with a period
CommandAndPeriod_PeriodOptional(toks, pos) ==
  LET Then(r, K(_)) == IF r.ok THEN K(r) ELSE r IN
  Then(parse_command(toks, pos), LAMBDA r1 :
    IF match_token(toks, r1.pos, Terminator)
    THEN Then(consume_token(toks, r1.pos, Terminator), LAMBDA r2 : Ok(r2.pos, r1.node))
    ELSE Ok(r1.pos, r1.node))

CommandAndPeriod(toks, pos) ==
  LET Then(r, K(_)) == IF r.ok THEN K(r) ELSE r IN
  Then(parse_command(toks, pos), LAMBDA r1 :
  Then(consume_token(toks, r1.pos, Terminator), LAMBDA r2 :
    Ok(r2.pos, r1.node)))

(***************************************************************************)
(* DeviceParser: error list and recovery                                   *)
(***************************************************************************)
sync_tokens == {"DISPOSITIVO", "SET", "SE", "LIGAR", "DESLIGAR", "ENVIAR"}

\* mutant of synchronize: a period stops the skipping too
RECURSIVE synchronize_StopsAtPeriod(_, _)
synchronize_StopsAtPeriod(toks, pos) ==
  IF HasToken(toks, pos) /\ toks[pos + 1].type \notin sync_tokens \cup {"PONTO"}
  THEN synchronize_StopsAtPeriod(toks, pos + 1)
  ELSE pos

\* synchronize: the cursor after the tokens it skips
RECURSIVE synchronize(_, _)
synchronize(toks, pos) ==
  IF HasToken(toks, pos) /\ toks[pos + 1].type \notin sync_tokens
  THEN synchronize(toks, pos + 1)
  ELSE pos

\* the string add_error builds from str(e): "Linha N: " is put in front when
\* there is a current token
ErrorLine(toks, pos, e) ==
  [prefix |-> LineHere(toks, pos), line |-> e.line, tag |-> e.tag,
   expected |-> e.expected, foundType |-> e.foundType, found |-> e.found,
   items |-> e.items]

\* "if error_msg not in self.errors: self.errors.append(error_msg)"
AppendNew(errs, msg) ==
  IF \E k \in 1..Len(errs) : errs[k] = msg THEN errs ELSE Append(errs, msg)

add_error(errs, toks, pos, e) == AppendNew(errs, ErrorLine(toks, pos, e))

\* the message of parse for a token left after the last command
TrailingToken(toks, pos) ==
  ParseError("unexpected token after end of program", "", "",
             StrOfValue(CurrentToken(toks, pos).value), 0)

(***************************************************************************)
(* DeviceParser.parse, as the steps the state machine takes.  A parse      *)
(* state is [pos, errors, commands, exc]: the cursor, self.errors, the     *)
(* local list of parse_commands and the exception that is propagating.     *)
(***************************************************************************)
ParseState(pos, errs, cmds, exc) ==
  [pos |-> pos, errors |-> errs, commands |-> cmds, exc |-> exc]

\* the loop condition of parse_commands
LoopCondition(toks, pos) == HasToken(toks, pos) /\ match_token_for_command(toks, pos)

\* mutant of CommandIteration: the except block does not move the cursor
\* past the command that failed
CommandIteration_NoAdvance(toks, pos, errs, cmds) ==
  LET Outcome(r) ==
        IF r.ok THEN ParseState(r.pos, errs, Append(cmds, r.node), NoExc)
        ELSE IF r.exc.exc = "ParseError"
        THEN ParseState(pos, add_error(errs, toks, r.pos, StrOfError(r.exc)), cmds, NoExc)
        ELSE ParseState(r.pos, errs, cmds, r.exc)
  IN  Outcome(CommandAndPeriod(toks, pos))

\* one iteration of the loop of parse_commands: the try block and, for a
\* ParseError, the except block with add_error and synchronize
CommandIteration(toks, pos, errs, cmds) ==
  LET Outcome(r) ==
        IF r.ok THEN ParseState(r.pos, errs, Append(cmds, r.node), NoExc)
        ELSE IF r.exc.exc = "ParseError"
        THEN ParseState(synchronize(toks, r.pos),
                        add_error(errs, toks, r.pos, StrOfError(r.exc)), cmds, NoExc)
        ELSE ParseState(r.pos, errs, cmds, r.exc)
  IN  Outcome(CommandAndPeriod(toks, pos))

\* mutant of CommandsExit: an empty command list is accepted
CommandsExit_AllowsEmpty(pos, errs, cmds) == ParseState(pos, errs, cmds, NoExc)

\* after the loop of parse_commands: an empty command list is an error
CommandsExit(pos, errs, cmds) ==
  IF cmds = <<>>
  THEN ParseState(pos, errs, cmds,
                  ParseError("expected at least one command", "", "", <<>>, 0))
  ELSE ParseState(pos, errs, cmds, NoExc)

\* mutant of AfterProgram: a token left after the last command is not checked
AfterProgram_IgnoresTrailing(toks, pos, errs, cmds) ==
  IF errs # <<>>
  THEN ParseState(pos, errs, cmds, ParseErrorList("parsing completed with errors", errs))
  ELSE ParseState(pos, errs, cmds, NoExc)

\* parse, after parse_program returned: the check for a token left over and
\* the check of the error list
AfterProgram(toks, pos, errs, cmds) ==
  LET errs1 == IF HasToken(toks, pos)
               THEN add_error(errs, toks, pos, StrOfError(TrailingToken(toks, pos)))
               ELSE errs
  IN  IF errs1 # <<>>
      THEN ParseState(pos, errs1, cmds,
                      ParseErrorList("parsing completed with errors", errs1))
      ELSE ParseState(pos, errs1, cmds, NoExc)

\* the handler "except ParseError as e" of parse
ExceptParseError(pos, errs, cmds, e) ==
  LET errs1 == AppendNew(errs, StrOfError(e))
  IN  ParseState(pos, errs1, cmds, ParseErrorList("parsing failed", errs1))

\* the exception parse raises for an input without tokens
EmptyInput == ParseError("empty input - no tokens found", "", "", <<>>, 0)

(***************************************************************************)
(* DeviceLanguageProcessor.analyze: the result dictionary                  *)
(***************************************************************************)
\* str(e) for the exception analyze catches; any exception other than a
\* ParseError is reported as "Unexpected error: ..."
ResultError(e) ==
  IF e.exc = "ParseError" THEN StrOfError(e)
  ELSE [prefix |-> 0, line |-> 0, tag |-> "unexpected error", expected |-> "",
        foundType |-> "", found |-> <<>>, items |-> <<>>]

InitialResult == [success |-> FALSE, tokens |-> <<>>, ast |-> NoneNode, errors |-> <<>>]
SuccessResult(toks, ast) ==
  [success |-> TRUE, tokens |-> toks, ast |-> ast, errors |-> <<>>]
\* mutant of FailureResult: the exception is not put in the error list
FailureResult_NoErrors(toks, e) ==
  [success |-> FALSE, tokens |-> toks, ast |-> NoneNode, errors |-> <<>>]
FailureResult(toks, e) ==
  [success |-> FALSE, tokens |-> toks, ast |-> NoneNode, errors |-> <<ResultError(e)>>]

(***************************************************************************)
(* The whole of parse and of analyze as functions of the input             *)
(***************************************************************************)
\* the loop of parse_commands, run to its end
RECURSIVE CommandLoop(_, _, _, _)
CommandLoop(toks, pos, errs, cmds) ==
  LET Continue(st) ==
        IF st.exc.exc = "none"
        THEN CommandLoop(toks, st.pos, st.errors, st.commands)
        ELSE st
  IN  IF LoopCondition(toks, pos)
      THEN Continue(CommandIteration(toks, pos, errs, cmds))
      ELSE CommandsExit(pos, errs, cmds)

\* how an exception raised inside the try block leaves parse
Propagate(st) ==
  IF st.exc.exc = "ParseError"
  THEN ExceptParseError(st.pos, st.errors, st.commands, st.exc)
  ELSE st

\* parse on the token list toks: [program, exc], program = NoneNode when
\* parse raises exc
ParseTokens(toks) ==
  LET Failed(st) == [program |-> NoneNode, exc |-> Propagate(st).exc]
      Finished(d, c, f) ==
        IF f.exc.exc # "none" THEN Failed(f)
        ELSE [program |-> Program(d.node, CommandList(c.commands)), exc |-> NoExc]
      Commands(d, c) ==
        IF c.exc.exc # "none" THEN Failed(c)
        ELSE Finished(d, c, AfterProgram(toks, c.pos, c.errors, c.commands))
      Devices(d) ==
        IF ~d.ok THEN Failed(ParseState(d.pos, <<>>, <<>>, d.exc))
        ELSE Commands(d, CommandLoop(toks, d.pos, <<>>, <<>>))
  IN  IF toks = <<>> THEN [program |-> NoneNode, exc |-> EmptyInput]
      ELSE Devices(parse_devices(toks, 0))

\* analyze(input_text)
analyze(input_text) ==
  LET Result(toks, r) ==
        IF r.exc.exc = "none" THEN SuccessResult(toks, r.program)
        ELSE FailureResult(toks, r.exc)
      Parsed(toks) == Result(toks, ParseTokens(toks))
  IN  Parsed(Tokenize(input_text))

(***************************************************************************)
(* Code generation: the lowering of a condition                            *)
(***************************************************************************)
\* a literal as the generated text shows it: decimal digits, True or False
GenLiteral(v) == StrOfValue(v)

\* the keyword that joins two comparisons of a chain
GenCombinator == <<" ","a","n","d"," ">>

\* the condition text of an if-statement: the comparisons of the chain in
\* order, joined by the logical-AND keyword
RECURSIVE GenCondition(_)
GenCondition(obs) ==
  LET this == obs.observation \o <<" ">> \o obs.operator \o <<" ">>
                \o GenLiteral(obs.value.value)
  IN  IF obs.next_obs = NoneNode THEN this
      ELSE this \o GenCombinator \o GenCondition(obs.next_obs)

\* a str as a string literal of the generated text
GenString(s) == <<"\"">> \o s \o <<"\"">>

\* one line of the generated text: its nesting depth and its characters
GenLine(depth, txt) == [depth |-> depth, text |-> txt]

\* the declarations: one, initialised to None, for each observation name a
\* device binds, in declaration order, a name declared once (seen holds the
\* names already declared)
RECURSIVE GenDeclarations(_, _)
GenDeclarations(devs, seen) ==
  IF devs = <<>> THEN <<>>
  ELSE IF devs[1].observation.some /\ devs[1].observation.s \notin seen
       THEN << GenLine(0, devs[1].observation.s \o <<" ","="," ","N","o","n","e">>) >>
              \o GenDeclarations(Tail(devs), seen \cup {devs[1].observation.s})
       ELSE GenDeclarations(Tail(devs), seen)

\* the plain alert call for one device
GenAlert(device, message) ==
  <<"a","l","e","r","t","a","(">> \o GenString(device) \o <<","," ">>
    \o GenString(message) \o <<")">>

\* the alert call that carries the value of an observation
GenAlertVar(device, message, observation) ==
  <<"a","l","e","r","t","a","v","a","r","(">> \o GenString(device) \o <<","," ">>
    \o GenString(message) \o <<","," ","s","t","r","(">> \o observation \o <<")",")">>

\* a broadcast alert: one plain alert call for each device, in list order
RECURSIVE GenBroadcast(_, _, _)
GenBroadcast(message, devs, depth) ==
  IF devs = <<>> THEN <<>>
  ELSE << GenLine(depth, GenAlert(devs[1], message)) >>
         \o GenBroadcast(message, Tail(devs), depth)

\* the lines of an action
GenAction(a, depth) ==
  CASE a.node = "SimpleAction" ->
         << GenLine(depth, a.action_type \o <<"(">> \o GenString(a.device) \o <<")">>) >>
    [] a.node = "AlertAction" ->
         << GenLine(depth, IF a.observation.some
                           THEN GenAlertVar(a.device, a.message, a.observation.s)
                           ELSE GenAlert(a.device, a.message)) >>
    [] a.node = "BroadcastAlertAction" ->
         GenBroadcast(a.message, a.devices.devices, depth)

\* the lines of a command: an assignment, an if-statement with its
\* branches, or an action
GenCommand(c) ==
  CASE c.node = "Attribution" ->
         << GenLine(0, c.observation \o <<" ","="," ">> \o GenLiteral(c.value.value)) >>
    [] c.node = "ObservationAction" ->
         << GenLine(0, <<"i","f"," ">> \o GenCondition(c.condition) \o <<":">>) >>
           \o GenAction(c.then_action, 1)
           \o (IF c.else_action.node = "None" THEN <<>>
               ELSE << GenLine(0, <<"e","l","s","e",":">>) >>
                      \o GenAction(c.else_action, 1))
    [] OTHER -> GenAction(c, 0)

RECURSIVE GenCommands(_)
GenCommands(cmds) ==
  IF cmds = <<>> THEN <<>> ELSE GenCommand(cmds[1]) \o GenCommands(Tail(cmds))

\* generate(program): the declarations, then the code of the commands in
\* source order
Generate(program) ==
  GenDeclarations(program.devices.devices, {})
    \o GenCommands(program.commands.commands)

(***************************************************************************)
(* Source texts.  A statement is a list of words; its text separates the   *)
(* words by one space.                                                     *)
(***************************************************************************)
w_dispositivo == <<"d","i","s","p","o","s","i","t","i","v","o">>
w_set == <<"s","e","t">>
w_se == <<"s","e">>
w_entao == <<"e","n","t","a","o">>
w_senao == <<"s","e","n","a","o">>
w_enviar == <<"e","n","v","i","a","r">>
w_alerta == <<"a","l","e","r","t","a">>
w_para == <<"p","a","r","a">>
w_todos == <<"t","o","d","o","s">>
w_ligar == <<"l","i","g","a","r">>
w_desligar == <<"d","e","s","l","i","g","a","r">>
w_true == <<"t","r","u","e">>
w_led == <<"l","e","d">>
w_fan == <<"f","a","n">>
w_t == <<"t">>
w_hi == <<"\"","h","i","\"">>
w_25 == <<"2","5">>
w_20 == <<"2","0">>
w_30 == <<"3","0">>
s_colon == <<":">>
s_dot == <<".">>
s_comma == <<",">>
s_eq == <<"=">>
s_open == <<"(">>
s_close == <<")">>
s_gt == <<">">>
s_lt == <<"<">>
s_ne == <<"!","=">>
s_and == <<"&","&">>
s_percent == <<"%">>

\* the words of ws, each followed by the separator sep
RECURSIVE Join(_, _)
Join(ws, sep) ==
  IF ws = <<>> THEN <<>> ELSE ws[1] \o sep \o Join(Tail(ws), sep)

\* device sections: well formed (one device with an observation; two
\* devices on two lines), without the colon, without a name, and absent
DeviceSections ==
  { Join(<<w_dispositivo, s_colon, w_led, s_comma, w_t>>, <<" ">>),
    Join(<<w_dispositivo, s_colon, w_led>>, <<" ">>) \o <<"\n">>
      \o Join(<<w_dispositivo, s_colon, w_fan, s_comma, w_t>>, <<" ">>),
    Join(<<w_dispositivo, w_led>>, <<" ">>),
    Join(<<w_dispositivo, s_colon>>, <<" ">>),
    <<>> }

\* command statements: the forms of the grammar, and malformed ones (no
\* period, no '=', no device name, an illegal character, a device
\* declaration among the commands)
CommandStatements ==
  { Join(<<w_set, w_t, s_eq, w_25, s_dot>>, <<" ">>),
    Join(<<w_set, w_t, s_eq, w_25>>, <<" ">>),
    Join(<<w_set, w_t, w_25, s_dot>>, <<" ">>),
    Join(<<w_set, w_t, s_eq, w_true, s_percent \o s_dot>>, <<" ">>),
    Join(<<w_ligar, s_dot>>, <<" ">>),
    Join(<<w_ligar, s_percent>>, <<" ">>),
    Join(<<w_se, w_t, s_gt, w_20, w_entao, w_ligar, w_led, s_dot>>, <<" ">>),
    Join(<<w_se, w_t, s_gt, w_20, s_and, w_t, s_lt, w_30, w_entao, w_desligar, w_led,
           w_senao, w_enviar, w_alerta, s_open, w_hi, s_close, w_para, w_todos,
           s_colon, w_led, s_comma, w_fan, s_dot>>, <<" ">>),
    Join(<<w_se, w_t, s_gt, w_20, s_and, w_t, s_lt, w_30, s_and, w_t, s_ne, w_25,
           w_entao, w_enviar, w_alerta, s_open, w_hi, s_comma, w_t, s_close, w_led,
           s_dot>>, <<" ">>),
    Join(<<w_dispositivo, s_colon, w_fan>>, <<" ">>) }

\* what separates the statements of one source: a newline or nothing more
\* than the space that ends each statement
Separators == { <<>>, <<"\n">> }

\* the texts made of at most n command statements, each followed by sep
RECURSIVE CommandTexts(_, _)
CommandTexts(n, sep) ==
  IF n = 0 THEN { <<>> }
  ELSE { <<>> } \cup { c \o sep \o rest : c \in CommandStatements,
                                           rest \in CommandTexts(n - 1, sep) }

\* a device section followed by at most MaxCmds command statements
Programs ==
  UNION { { IF d = <<>> THEN cs ELSE d \o sep \o cs :
              d \in DeviceSections, cs \in CommandTexts(MaxCmds, sep) } :
          sep \in Separators }

\* free-form strings over a few characters: letters of "se" and "set", a
\* digit, blanks, a newline, a quote and characters no rule matches
RawChars == { "s", "e", "t", "1", " ", "\n", "\"", "%", "&", "_", "." }

RECURSIVE RawTexts(_)
RawTexts(n) ==
  IF n = 0 THEN { <<>> }
  ELSE { <<>> } \cup { <<c>> \o r : c \in RawChars, r \in RawTexts(n - 1) }

\* words of the programs below
s_or == <<"|","|">>
w_led_1 == <<"l","e","d","_","1">>
w_025 == <<"0","2","5">>
w_false == <<"f","a","l","s","e">>

\* the lines of ls, each followed by a newline
Lines(ls) == Join(ls, <<"\n">>)

\* whole programs: a condition with '||'; broadcast alerts to one and to
\* three devices; a device name with an underscore and a digit; two devices
\* that bind the same observation; the two single-target alerts; literals
\* with a leading zero and 'false'; a malformed command followed by a device
\* declaration and a further command
CasePrograms ==
  { Lines(<< Join(<<w_dispositivo, s_colon, w_led, s_comma, w_t>>, <<" ">>),
             Join(<<w_se, w_t, s_gt, w_20, s_and, w_t, s_lt, w_30, s_or, w_t, s_ne,
                    w_25, w_entao, w_ligar, w_led, s_dot>>, <<" ">>) >>),
    Lines(<< Join(<<w_dispositivo, s_colon, w_led>>, <<" ">>),
             Join(<<w_enviar, w_alerta, s_open, w_hi, s_close, w_para, w_todos,
                    s_colon, w_led, s_dot>>, <<" ">>),
             Join(<<w_enviar, w_alerta, s_open, w_hi, s_close, w_para, w_todos,
                    s_colon, w_fan, s_comma, w_led, s_comma, w_t, s_dot>>, <<" ">>) >>),
    Lines(<< Join(<<w_dispositivo, s_colon, w_led_1, s_comma, w_t>>, <<" ">>),
             Join(<<w_ligar, w_led_1, s_dot>>, <<" ">>) >>),
    Lines(<< Join(<<w_dispositivo, s_colon, w_led, s_comma, w_t>>, <<" ">>),
             Join(<<w_dispositivo, s_colon, w_fan, s_comma, w_t>>, <<" ">>),
             Join(<<w_dispositivo, s_colon, w_t, s_comma, w_fan>>, <<" ">>),
             Join(<<w_set, w_t, s_eq, w_25, s_dot>>, <<" ">>) >>),
    Lines(<< Join(<<w_dispositivo, s_colon, w_led, s_comma, w_t>>, <<" ">>),
             Join(<<w_enviar, w_alerta, s_open, w_hi, s_close, w_led, s_dot>>, <<" ">>),
             Join(<<w_enviar, w_alerta, s_open, w_hi, s_comma, w_t, s_close, w_fan,
                    s_dot>>, <<" ">>) >>),
    Lines(<< Join(<<w_dispositivo, s_colon, w_led, s_comma, w_t>>, <<" ">>),
             Join(<<w_set, w_t, s_eq, w_025, s_dot>>, <<" ">>),
             Join(<<w_set, w_t, s_eq, w_false, s_dot>>, <<" ">>) >>),
    Lines(<< Join(<<w_dispositivo, s_colon, w_led, s_comma, w_t>>, <<" ">>),
             Join(<<w_set, w_t, w_25, s_dot>>, <<" ">>),
             Join(<<w_dispositivo, s_colon, w_fan>>, <<" ">>),
             Join(<<w_set, w_t, s_eq>>, <<" ">>) >>) }

\* texts for the lexer: words that begin with a reserved word, a message
\* that holds a newline and is followed by a word, blanks of each kind
LexerTexts ==
  { <<"t","r","u","e","t">>,
    <<"f","a","l","s","e","1">>,
    <<"s","e","t","s"," ","s","e","_">>,
    <<"\"","\n","\""," ","s","e">>,
    <<"s","e","\t","t"," ","1","\n","%">>,
    <<"s","e","\r","t">> }

\* texts for the parser: a broadcast alert whose parentheses hold a message
\* and an observation; inputs that end where a device name or the device
\* of an action is expected
ParserTexts ==
  { Lines(<< Join(<<w_dispositivo, s_colon, w_led, s_comma, w_t>>, <<" ">>),
             Join(<<w_dispositivo, s_colon, w_fan>>, <<" ">>),
             Join(<<w_enviar, w_alerta, s_open, w_hi, s_comma, w_t, s_close, w_para,
                    w_todos, s_colon, w_led, s_comma, w_fan, s_dot>>, <<" ">>) >>),
    Join(<<w_dispositivo, s_colon>>, <<" ">>),
    Lines(<< Join(<<w_dispositivo, s_colon, w_led>>, <<" ">>), w_ligar >>) }

Sources ==
  Programs \cup RawTexts(MaxRaw) \cup CasePrograms \cup LexerTexts \cup ParserTexts

\* the texts given to a processor that is used more than once
ReuseSources == CasePrograms \cup { <<>>, <<"%">> }

(***************************************************************************)
(* The state machine: analyze(text) on a fresh DeviceLanguageProcessor     *)
(***************************************************************************)
VARIABLES
  text,        \* input_text
  calls,       \* how many times analyze has been called on this processor
  previous,    \* what the call before this one returned
  pc,          \* the position in analyze / parse
  index,       \* lexer.index during analyze's tokenize
  lineno,      \* lexer.lineno during analyze's tokenize
  scanned,     \* the tokens analyze's tokenize has produced so far
  reports,     \* the illegal characters DeviceLexer.error has printed
  tokens,      \* parser.tokens
  pos,         \* parser.current_token_index
  errors,      \* parser.errors
  panic_mode,  \* parser.panic_mode
  devices,     \* the DeviceList parse_program holds
  commands,    \* the list parse_commands builds
  raised,      \* the exception that is propagating, if any
  result       \* the dictionary analyze returns

vars == << text, calls, previous, pc, index, lineno, scanned, reports, tokens, pos, errors,
           panic_mode, devices, commands, raised, result >>

lexerVars == << index, lineno, scanned, reports >>
parserVars == << tokens, pos, errors, panic_mode, devices, commands >>

Init ==
  /\ text \in Sources
  /\ calls = 1
  /\ previous = InitialResult
  /\ pc = "tokenize"
  /\ index = 0
  /\ lineno = 1
  /\ scanned = <<>>
  /\ reports = <<>>
  /\ tokens = <<>>
  /\ pos = 0
  /\ errors = <<>>
  /\ panic_mode = FALSE
  /\ devices = NoneNode
  /\ commands = <<>>
  /\ raised = NoExc
  /\ result = InitialResult

\* one iteration of the scanning loop of self.tokenize(input_text): a token
\* is produced, a run of newlines is counted, or an illegal character is
\* reported by DeviceLexer.error and skipped
LexStep ==
  /\ pc = "tokenize"
  /\ SkipIgnored(text, index) < Len(text)
  /\ \E r \in {LexOne(text, index, lineno)} :
       /\ index' = r.index
       /\ lineno' = r.lineno
       /\ scanned' = IF r.kind = "token" THEN Append(scanned, r.tok) ELSE scanned
       /\ reports' = IF r.kind = "error" THEN Append(reports, r.tok) ELSE reports
  /\ UNCHANGED << text, calls, previous, pc, parserVars, raised, result >>

\* the scan reaches the end of the text: result['tokens'] is complete
LexEnd ==
  /\ pc = "tokenize"
  /\ SkipIgnored(text, index) >= Len(text)
  /\ index' = SkipIgnored(text, index)
  /\ pc' = "parse"
  /\ UNCHANGED << text, calls, previous, lineno, scanned, reports, parserVars, raised, result >>

\* mutant of ParseBegin: the check for an input without tokens is missing
ParseBegin_NoEmptyCheck ==
  /\ pc = "parse"
  /\ errors' = <<>>
  /\ panic_mode' = FALSE
  /\ tokens' = Tokenize(text)
  /\ pos' = 0
  /\ pc' = "devices"
  /\ UNCHANGED << text, calls, previous, lexerVars, devices, commands, raised, result >>

\* mutant of ParseBegin: the error list of the last parse is kept
ParseBegin_KeepsErrors ==
  /\ pc = "parse"
  /\ errors' = errors
  /\ panic_mode' = FALSE
  /\ tokens' = Tokenize(text)
  /\ pos' = 0
  /\ IF tokens' = <<>>
     THEN raised' = EmptyInput /\ pc' = "except"
     ELSE raised' = raised /\ pc' = "devices"
  /\ UNCHANGED << text, calls, previous, lexerVars, devices, commands, result >>

\* parse: the state is reset and the input is tokenized again; an input
\* without tokens raises outside the try block
ParseBegin ==
  /\ pc = "parse"
  /\ errors' = <<>>
  /\ panic_mode' = FALSE
  /\ tokens' = Tokenize(text)
  /\ pos' = 0
  /\ IF tokens' = <<>>
     THEN raised' = EmptyInput /\ pc' = "except"
     ELSE raised' = raised /\ pc' = "devices"
  /\ UNCHANGED << text, calls, previous, lexerVars, devices, commands, result >>

\* parse_program calls parse_devices
ParseDevices ==
  /\ pc = "devices"
  /\ \E r \in {parse_devices(tokens, pos)} :
       /\ pos' = r.pos
       /\ IF r.ok
          THEN devices' = r.node /\ raised' = raised /\ pc' = "commands"
          ELSE devices' = devices /\ raised' = r.exc /\ pc' = "handler"
  /\ UNCHANGED << text, calls, previous, lexerVars, tokens, errors, panic_mode, commands, result >>

\* one iteration of the loop of parse_commands
CommandStep ==
  /\ pc = "commands"
  /\ LoopCondition(tokens, pos)
  /\ \E st \in {CommandIteration(tokens, pos, errors, commands)} :
       /\ pos' = st.pos
       /\ errors' = st.errors
       /\ commands' = st.commands
       /\ panic_mode' = FALSE
       /\ raised' = st.exc
       /\ pc' = IF st.exc.exc = "none" THEN "commands" ELSE "handler"
  /\ UNCHANGED << text, calls, previous, lexerVars, tokens, devices, result >>

\* the loop of parse_commands ends; parse_program returns the Program
CommandsEnd ==
  /\ pc = "commands"
  /\ ~LoopCondition(tokens, pos)
  /\ \E st \in {CommandsExit(pos, errors, commands)} :
       /\ raised' = st.exc
       /\ pc' = IF st.exc.exc = "none" THEN "finish" ELSE "handler"
  /\ UNCHANGED << text, calls, previous, lexerVars, parserVars, result >>

\* parse after parse_program: a token left over is an error, and a
\* non-empty error list raises
ParseFinish ==
  /\ pc = "finish"
  /\ \E st \in {AfterProgram(tokens, pos, errors, commands)} :
       /\ errors' = st.errors
       /\ raised' = st.exc
       /\ pc' = IF st.exc.exc = "none" THEN "return" ELSE "handler"
  /\ UNCHANGED << text, calls, previous, lexerVars, tokens, pos, panic_mode, devices, commands, result >>

\* "except ParseError as e" of parse: the error joins the list and parse
\* raises the ParseError that lists every error
ParseHandler ==
  /\ pc = "handler"
  /\ raised.exc = "ParseError"
  /\ \E st \in {ExceptParseError(pos, errors, commands, raised)} :
       /\ errors' = st.errors
       /\ raised' = st.exc
  /\ pc' = "except"
  /\ UNCHANGED << text, calls, previous, lexerVars, tokens, pos, panic_mode, devices, commands, result >>

\* an exception that is not a ParseError leaves parse unhandled
ParseEscape ==
  /\ pc = "handler"
  /\ raised.exc # "ParseError"
  /\ pc' = "except"
  /\ UNCHANGED << text, calls, previous, lexerVars, parserVars, raised, result >>

\* analyze: parse returned the Program
AnalyzeSuccess ==
  /\ pc = "return"
  /\ result' = SuccessResult(scanned, Program(devices, CommandList(commands)))
  /\ pc' = "done"
  /\ UNCHANGED << text, calls, previous, lexerVars, parserVars, raised >>

\* analyze: parse raised; the exception becomes the one entry of errors
AnalyzeFailure ==
  /\ pc = "except"
  /\ result' = FailureResult(scanned, raised)
  /\ pc' = "done"
  /\ UNCHANGED << text, calls, previous, lexerVars, parserVars, raised >>

\* analyze is called again on the same DeviceLanguageProcessor: tokenize
\* starts a new scan at index 0 and line 1 and the locals of the call are
\* new, while the fields of self.parser are what the last parse left
AnalyzeAgain ==
  /\ pc = "done"
  /\ calls < MaxCalls
  /\ text \in ReuseSources
  /\ \E s \in ReuseSources : text' = s
  /\ calls' = calls + 1
  /\ previous' = result
  /\ pc' = "tokenize"
  /\ index' = 0
  /\ lineno' = 1
  /\ scanned' = <<>>
  /\ reports' = <<>>
  /\ devices' = NoneNode
  /\ commands' = <<>>
  /\ raised' = NoExc
  /\ result' = InitialResult
  /\ UNCHANGED << tokens, pos, errors, panic_mode >>

Next ==
  \/ LexStep
  \/ LexEnd
  \/ ParseBegin
  \/ ParseDevices
  \/ CommandStep
  \/ CommandsEnd
  \/ ParseFinish
  \/ ParseHandler
  \/ ParseEscape
  \/ AnalyzeSuccess
  \/ AnalyzeFailure
  \/ AnalyzeAgain

Spec == Init /\ [][Next]_vars

TypeOK ==
  /\ calls \in 1..MaxCalls
  /\ pc \in {"tokenize", "parse", "devices", "commands", "finish", "handler",
             "return", "except", "done"}
  /\ index \in 0..Len(text)
  /\ pos \in 0..Len(tokens)

(***************************************************************************)
(* Properties                                                              *)
(***************************************************************************)
\* the command loop is at a command that parses but is not followed by a period
MissingPeriodAt(toks, p) ==
  /\ LoopCondition(toks, p)
  /\ parse_command(toks, p).ok
  /\ ~match_token(toks, parse_command(toks, p).pos, "PONTO")

\* the lines of the tokens a+1 .. b of toks
TokenLines(toks, a, b) == { toks[k].lineno : k \in (a + 1)..b }

\* C1: when a command is not followed by a period, the iteration records a
\* syntax error that expects PONTO and names a line of that command
C1_MissingPeriodNamesCommandLine ==
  [][ (pc = "commands" /\ MissingPeriodAt(tokens, pos))
        => \E k \in 1..Len(errors') :
              /\ errors'[k].expected = "PONTO"
              /\ \/ errors'[k].line \in
                      TokenLines(tokens, pos, parse_command(tokens, pos).pos)
                 \/ errors'[k].prefix \in
                      TokenLines(tokens, pos, parse_command(tokens, pos).pos) ]_vars

\* C2: in a parse that has already recorded the error of one malformed
\* command, every later iteration of the command loop that meets a malformed
\* command records a syntax error of its own
C2_EveryMalformedCommandRecorded ==
  [][ (pc = "commands" /\ errors # <<>> /\ LoopCondition(tokens, pos)
         /\ ~CommandAndPeriod(tokens, pos).ok)
        => Len(errors') > Len(errors) ]_vars

\* the command the parser would resume at after an error in the device
\* section, were it to synchronize there
ResumePoint(toks) == synchronize(toks, parse_devices(toks, 0).pos)

\* C3: after a syntax error in a device declaration the parser recovers, so
\* the syntax error of the command it resumes at is in the error list too
C3_DeviceErrorRecovers ==
  ( /\ pc = "done"
    /\ tokens # <<>>
    /\ tokens[1].type = "DISPOSITIVO"
    /\ parse_devices(tokens, 0).exc.exc = "ParseError"
    /\ LoopCondition(tokens, ResumePoint(tokens))
    /\ CommandAndPeriod(tokens, ResumePoint(tokens)).exc.exc = "ParseError" )
  => LET r == CommandAndPeriod(tokens, ResumePoint(tokens))
     IN  \E k \in 1..Len(errors) :
            /\ errors[k].tag = r.exc.tag
            /\ errors[k].expected = r.exc.expected
            /\ errors[k].line = r.exc.line

\* C4: parse returns a Program only with an empty error list and every token
\* consumed; with an error recorded or a token left it raises, and analyze
\* has no AST
C4_ProgramOnlyWithoutErrors ==
  /\ (pc = "return" \/ result.success)
       => (errors = <<>> /\ ~HasToken(tokens, pos) /\ raised.exc = "none")
  /\ (pc = "done" /\ (errors # <<>> \/ HasToken(tokens, pos)))
       => (~result.success /\ result.ast = NoneNode /\ raised.exc # "none")

C4_Witness ==
  /\ pc = "done"
  /\ HasToken(tokens, pos)
  /\ commands # <<>>
  /\ Len(errors) = 2
  /\ ~result.success

\* C5: a source without tokens yields exactly one error, the empty-input
\* error, and no Program
C5_EmptyInputOneError ==
  (pc = "done" /\ scanned = <<>>)
    => /\ ~result.success
       /\ result.ast = NoneNode
       /\ Len(result.errors) = 1
       /\ result.errors[1].tag = "empty input - no tokens found"
       /\ result.errors[1].items = <<>>
       /\ errors = <<>>

C5_Witness ==
  /\ pc = "done"
  /\ scanned = <<>>
  /\ Len(text) >= 2
  /\ reports = <<>>
  /\ Len(result.errors) = 1

\* some entry of errs has the tag
HasError(errs, tag) == \E k \in 1..Len(errs) : errs[k].tag = tag

\* C6: a returned Program has at least one device and one command; an input
\* that does not start with a device declaration, or that has no command
\* after its device section, is reported as a syntax error and has no Program
C6_AtLeastOneDeviceAndCommand ==
  /\ result.success
       => /\ Len(result.ast.devices.devices) >= 1
          /\ Len(result.ast.commands.commands) >= 1
  /\ (pc = "done" /\ tokens # <<>> /\ tokens[1].type # "DISPOSITIVO")
       => /\ ~result.success
          /\ result.ast = NoneNode
          /\ HasError(errors, "expected dispositivo at start of program")
  /\ (pc = "done" /\ tokens # <<>> /\ parse_devices(tokens, 0).ok
        /\ ~LoopCondition(tokens, parse_devices(tokens, 0).pos))
       => /\ ~result.success
          /\ result.ast = NoneNode
          /\ HasError(errors, "expected at least one command")

C6_Witness ==
  /\ pc = "done"
  /\ devices # NoneNode
  /\ commands = <<>>
  /\ ~LoopCondition(tokens, pos)
  /\ HasError(errors, "expected at least one command")
  /\ ~result.success

\* the text with every reported illegal character replaced by a space
Blanked(txt, reps) ==
  [k \in 1..Len(txt) |->
     IF \E j \in 1..Len(reps) : reps[j].index + 1 = k THEN " " ELSE txt[k]]

\* C7: when the source without its illegal characters is a valid program,
\* the source with them parses to the same Program
C7_IllegalCharacterDoesNotFail ==
  (pc = "done" /\ reports # <<>>)
    => LET ref == analyze(Blanked(text, reports))
       IN  ref.success
             => /\ result.success
                /\ result.ast = ref.ast
                /\ result.tokens = ref.tokens

C7_Witness ==
  /\ pc = "done"
  /\ reports # <<>>
  /\ result.success
  /\ Len(result.ast.commands.commands) >= 1

\* e is a record of the illegal character rep: its kind, character and line
IsLexicalRecord(e, rep) ==
  /\ e.tag = "illegal character"
  /\ e.found = rep.value.s
  /\ e.line = rep.lineno

\* C8: the errors of a failed analyze hold a record of every illegal
\* character the lexer met
C8_LexicalErrorsInErrorList ==
  (pc = "done" /\ reports # <<>> /\ ~result.success)
    => \A j \in 1..Len(reports) :
          \E k \in 1..Len(result.errors) :
             \/ IsLexicalRecord(result.errors[k], reports[j])
             \/ \E i \in 1..Len(result.errors[k].items) :
                   IsLexicalRecord(result.errors[k].items[i], reports[j])

\* C9: an unrecognized character yields no token, is reported with the
\* current line and exactly that one character is skipped; every step of the
\* scan moves forward and the scan ends at the end of the text
C9_IllegalCharacterSkipped ==
  [][ pc = "tokenize"
        => LET p == SkipIgnored(text, index)
           IN  /\ index' <= Len(text)
               /\ p < Len(text) => (index' > index /\ pc' = "tokenize")
               /\ p >= Len(text) => (index' = Len(text) /\ pc' = "parse")
               /\ (p < Len(text) /\ MasterMatch(text, p).type = "NOMATCH")
                    => /\ index' = p + 1
                       /\ lineno' = lineno
                       /\ scanned' = scanned
                       /\ Len(reports') = Len(reports) + 1
                       /\ reports'[Len(reports')].value.s = <<text[p + 1]>>
                       /\ reports'[Len(reports')].lineno = lineno
                       /\ reports'[Len(reports')].index = p ]_vars

C9_Witness ==
  /\ pc = "parse"
  /\ index = Len(text)
  /\ Len(reports) >= 2
  /\ scanned # <<>>
  /\ lineno > 1

\* the links of a condition chain, first to last
RECURSIVE ChainLinks(_)
ChainLinks(obs) ==
  << [observation |-> obs.observation, operator |-> obs.operator,
      value |-> obs.value.value, joined |-> obs.next_obs # NoneNode] >>
    \o (IF obs.next_obs = NoneNode THEN <<>> ELSE ChainLinks(obs.next_obs))

\* the links of the conditions of the commands cmds, in command order
RECURSIVE ProgramLinks(_)
ProgramLinks(cmds) ==
  IF cmds = <<>> THEN <<>>
  ELSE (IF cmds[1].node = "ObservationAction" THEN ChainLinks(cmds[1].condition)
        ELSE <<>>) \o ProgramLinks(Tail(cmds))

\* the comparisons "variable operator literal" of the tokens from k on, in
\* source order; joined tells that '&&' follows the literal
RECURSIVE TokenComparisons(_, _)
TokenComparisons(toks, k) ==
  IF k > Len(toks) THEN <<>>
  ELSE IF toks[k].type = "OPLOGIC"
       THEN << [observation |-> toks[k - 1].value.s, operator |-> toks[k].value.s,
                value |-> toks[k + 1].value,
                joined |-> (k + 2 <= Len(toks) /\ toks[k + 2].type = "AND")] >>
              \o TokenComparisons(toks, k + 1)
       ELSE TokenComparisons(toks, k + 1)

\* the condition texts of the commands cmds, each closed by ':'
RECURSIVE ProgramConditionText(_)
ProgramConditionText(cmds) ==
  IF cmds = <<>> THEN <<>>
  ELSE (IF cmds[1].node = "ObservationAction"
        THEN GenCondition(cmds[1].condition) \o <<":">> ELSE <<>>)
         \o ProgramConditionText(Tail(cmds))

\* the comparisons cs written out, ' and ' after a joined one, ':' after the
\* last one of a condition
RECURSIVE ComparisonText(_)
ComparisonText(cs) ==
  IF cs = <<>> THEN <<>>
  ELSE cs[1].observation \o <<" ">> \o cs[1].operator \o <<" ">>
         \o StrOfValue(cs[1].value)
         \o (IF cs[1].joined THEN <<" ","a","n","d"," ">> ELSE <<":">>)
         \o ComparisonText(Tail(cs))

\* C10: the comparisons of a condition joined by '&&' become the links of
\* one chain in source order, the last link without a next, and the lowered
\* text joins the same comparisons in that order with 'and'
C10_ChainInSourceOrder ==
  result.success
    => /\ ProgramLinks(result.ast.commands.commands) = TokenComparisons(tokens, 1)
       /\ ProgramConditionText(result.ast.commands.commands)
            = ComparisonText(TokenComparisons(tokens, 1))

C10_Witness ==
  /\ result.success
  /\ \E k \in 1..Len(result.ast.commands.commands) :
        LET c == result.ast.commands.commands[k]
        IN  /\ c.node = "ObservationAction"
            /\ Len(ChainLinks(c.condition)) = 3
            /\ GenCondition(c.condition) =
                 <<"t"," ",">"," ","2","0"," ","a","n","d"," ",
                   "t"," ","<"," ","3","0"," ","a","n","d"," ",
                   "t"," ","!","="," ","2","5">>

\* the text with every '|' written as '&'
WithAnd(txt) == [k \in 1..Len(txt) |-> IF txt[k] = "|" THEN "&" ELSE txt[k]]

\* the text joins two comparisons by '||'
HasOr(txt) == \E k \in 1..(Len(txt) - 1) : txt[k] = "|" /\ txt[k + 1] = "|"

\* C11: a condition whose comparisons are joined by '||' is accepted like
\* the same condition joined by '&&': the program parses and the chain has
\* one link for each comparison
C11_OrConditionAccepted ==
  (pc = "done" /\ HasOr(text) /\ analyze(WithAnd(text)).success)
    => /\ result.success
       /\ Len(ProgramLinks(result.ast.commands.commands))
            = Len(ProgramLinks(analyze(WithAnd(text)).ast.commands.commands))

\* for each conditional of the commands cmds, in order: whether it has an
\* else-action, and whether its generated lines have an else-branch
RECURSIVE ProgramElse(_)
ProgramElse(cmds) ==
  IF cmds = <<>> THEN <<>>
  ELSE (IF cmds[1].node = "ObservationAction"
        THEN << [ast |-> cmds[1].else_action.node
                           \in {"SimpleAction", "AlertAction", "BroadcastAlertAction"},
                 out |-> \E j \in 1..Len(GenCommand(cmds[1])) :
                            GenCommand(cmds[1])[j] = GenLine(0, <<"e","l","s","e",":">>)] >>
        ELSE <<>>) \o ProgramElse(Tail(cmds))

\* the token at k is followed by 'senao' and an action keyword before the
\* period that ends its statement
RECURSIVE SenaoFollows(_, _)
SenaoFollows(toks, k) ==
  IF k >= Len(toks) \/ toks[k + 1].type = "PONTO" THEN FALSE
  ELSE IF toks[k + 1].type = "SENAO"
       THEN k + 2 <= Len(toks) /\ toks[k + 2].type \in {"LIGAR", "DESLIGAR", "ENVIAR"}
       ELSE SenaoFollows(toks, k + 1)

\* for each 'se' of the tokens from k on, in source order: whether 'senao'
\* and an action follow in its statement
RECURSIVE TokenElse(_, _)
TokenElse(toks, k) ==
  IF k > Len(toks) THEN <<>>
  ELSE (IF toks[k].type = "SE"
        THEN << [ast |-> SenaoFollows(toks, k), out |-> SenaoFollows(toks, k)] >>
        ELSE <<>>) \o TokenElse(toks, k + 1)

\* C12: a conditional has an else-action in the tree and an else-branch in
\* the generated text exactly when its source has 'senao' and an action;
\* otherwise the else-action is None and the if-statement has no else
C12_ElseExactlyWhenSenao ==
  result.success
    => ProgramElse(result.ast.commands.commands) = TokenElse(tokens, 1)

C12_Witness ==
  /\ result.success
  /\ ProgramElse(result.ast.commands.commands)
       = << [ast |-> TRUE, out |-> TRUE], [ast |-> FALSE, out |-> FALSE] >>

\* the actions of the commands cmds in source order: a command that is an
\* action, and the then-action and else-action of a conditional
RECURSIVE ProgramActions(_)
ProgramActions(cmds) ==
  IF cmds = <<>> THEN <<>>
  ELSE (CASE cmds[1].node = "ObservationAction" ->
               << cmds[1].then_action >>
                 \o (IF cmds[1].else_action.node = "None" THEN <<>>
                     ELSE << cmds[1].else_action >>)
          [] cmds[1].node = "Attribution" -> <<>>
          [] OTHER -> << cmds[1] >>) \o ProgramActions(Tail(cmds))

\* the texts of the lines ls
LineTexts(ls) == [j \in 1..Len(ls) |-> ls[j].text]

\* the broadcast alerts among the actions as, in order: message, device
\* list and the texts of the calls they are lowered to
RECURSIVE Broadcasts(_)
Broadcasts(as) ==
  IF as = <<>> THEN <<>>
  ELSE (IF as[1].node = "BroadcastAlertAction"
        THEN << [message |-> as[1].message, devices |-> as[1].devices.devices,
                 calls |-> LineTexts(GenAction(as[1], 0))] >>
        ELSE <<>>) \o Broadcasts(Tail(as))

\* the names at k, k + 2, ... of a comma-separated list of the tokens
RECURSIVE TokenNames(_, _)
TokenNames(toks, k) ==
  IF k > Len(toks) THEN <<>>
  ELSE << toks[k].value.s >>
         \o (IF k + 1 <= Len(toks) /\ toks[k + 1].type = "VIRGULA"
             THEN TokenNames(toks, k + 2) ELSE <<>>)

\* the message of the alert whose argument list ends before token k
RECURSIVE MessageBefore(_, _)
MessageBefore(toks, k) ==
  IF k < 1 THEN <<>>
  ELSE IF toks[k].type = "MSG" THEN toks[k].value.s
  ELSE MessageBefore(toks, k - 1)

\* alerta("d", "m") for each name d of ds, in order
PlainAlertCalls(ds, m) ==
  [j \in 1..Len(ds) |->
     <<"a","l","e","r","t","a","(","\"">> \o ds[j] \o <<"\"",","," ","\"">> \o m
       \o <<"\"",")">>]

\* the broadcast alerts of the tokens from k on, in source order: each
\* 'todos' with the message before it and the names after its colon
RECURSIVE TokenBroadcasts(_, _)
TokenBroadcasts(toks, k) ==
  IF k > Len(toks) THEN <<>>
  ELSE (IF toks[k].type = "TODOS"
        THEN << [message |-> MessageBefore(toks, k),
                 devices |-> TokenNames(toks, k + 2),
                 calls |-> PlainAlertCalls(TokenNames(toks, k + 2),
                                           MessageBefore(toks, k))] >>
        ELSE <<>>) \o TokenBroadcasts(toks, k + 1)

\* C13: a broadcast alert to d1, ..., dK (K at least 1) becomes a
\* BroadcastAlertAction whose device list is d1, ..., dK in that order, and
\* it is lowered to K plain alert calls, one for each device in that order,
\* all with the message of the alert
C13_BroadcastOneCallPerDevice ==
  result.success
    => Broadcasts(ProgramActions(result.ast.commands.commands))
         = TokenBroadcasts(tokens, 1)

C13_Witness ==
  /\ result.success
  /\ \E k \in 1..2 :
       /\ Len(Broadcasts(ProgramActions(result.ast.commands.commands))) = 2
       /\ Len(Broadcasts(ProgramActions(result.ast.commands.commands))[k].calls) = 1
       /\ Broadcasts(ProgramActions(result.ast.commands.commands))[3 - k].calls
            = << <<"a","l","e","r","t","a","(","\"","f","a","n","\"",","," ",
                   "\"","h","i","\"",")">>,
                 <<"a","l","e","r","t","a","(","\"","l","e","d","\"",","," ",
                   "\"","h","i","\"",")">>,
                 <<"a","l","e","r","t","a","(","\"","t","\"",","," ",
                   "\"","h","i","\"",")">> >>

\* s is a letter followed by letters, digits or underscores
IsIdentifier(s) ==
  /\ s # <<>>
  /\ s[1] \in Letter
  /\ \A k \in 1..Len(s) : s[k] \in Letter \cup Digit \cup {"_"}

\* s consists of letters only
LettersOnly(s) == s # <<>> /\ \A k \in 1..Len(s) : s[k] \in Letter

\* C14 as stated: every device of a returned Program has a name of letters
\* only, and its observation name, when present, is an identifier
C14_DeviceNameLettersOnly ==
  result.success
    => \A k \in 1..Len(result.ast.devices.devices) :
          LET d == result.ast.devices.devices[k]
          IN  /\ LettersOnly(d.name)
              /\ d.observation.some => IsIdentifier(d.observation.s)

\* C14 amended: every device of a returned Program has a name that is an
\* identifier (a letter followed by letters, digits or underscores), and
\* its observation name, when present, is an identifier
C14_DeviceNameIdentifier ==
  result.success
    => \A k \in 1..Len(result.ast.devices.devices) :
          LET d == result.ast.devices.devices[k]
          IN  /\ IsIdentifier(d.name)
              /\ d.observation.some => IsIdentifier(d.observation.s)

C14_Witness ==
  /\ result.success
  /\ \E k \in 1..Len(result.ast.devices.devices) :
        LET d == result.ast.devices.devices[k]
        IN  /\ ~LettersOnly(d.name)
            /\ IsIdentifier(d.name)
            /\ d.observation.some

\* C15: a call of analyze on a processor that has analysed another text
\* before, with success or not, returns what a new processor returns for
\* the same text: the same tokens with the same lines, the same Program or
\* the same error messages; the error list and the cursor the parser ends
\* with are those of this text alone
C15_ReuseSameAsFresh ==
  (pc = "done" /\ calls > 1)
    => /\ result = analyze(text)
       /\ scanned = Tokenize(text)
       /\ tokens = Tokenize(text)
       /\ pos <= Len(tokens)
       /\ result.success => errors = <<>>

C15_Witness ==
  /\ pc = "done"
  /\ calls > 1
  /\ ~previous.success
  /\ previous.tokens # <<>>
  /\ previous.tokens[Len(previous.tokens)].lineno > 2
  /\ result.success
  /\ Len(result.tokens) < Len(previous.tokens)

\* the observation names the device declarations of the tokens bind, from
\* token k on, in source order: the name after the comma of
\* "dispositivo : name , observation"
RECURSIVE TokenBoundNames(_, _)
TokenBoundNames(toks, k) ==
  IF k > Len(toks) THEN <<>>
  ELSE (IF /\ toks[k].type = "DISPOSITIVO"
           /\ k + 4 <= Len(toks)
           /\ toks[k + 3].type = "VIRGULA"
        THEN << toks[k + 4].value.s >> ELSE <<>>) \o TokenBoundNames(toks, k + 1)

\* the sequence ns without the later occurrences of a name
RECURSIVE FirstOccurrences(_)
FirstOccurrences(ns) ==
  IF ns = <<>> THEN <<>>
  ELSE LET front == FirstOccurrences(SubSeq(ns, 1, Len(ns) - 1))
       IN  IF \E j \in 1..(Len(ns) - 1) : ns[j] = ns[Len(ns)]
           THEN front ELSE Append(front, ns[Len(ns)])

\* the line is a declaration "name = None"
IsDeclaration(line) ==
  /\ Len(line.text) > 7
  /\ SubSeq(line.text, Len(line.text) - 6, Len(line.text))
       = <<" ","="," ","N","o","n","e">>

\* C16: the generated text has one declaration initialised to None for
\* each distinct observation name a device binds, in declaration order and
\* once for a name bound by several devices, and every declaration comes
\* before the code of the first command
C16_OneDeclarationPerBoundName ==
  result.success
    => LET out == Generate(result.ast)
           names == FirstOccurrences(TokenBoundNames(tokens, 1))
       IN  /\ Len(out) >= Len(names)
           /\ \A j \in 1..Len(names) :
                 out[j] = [depth |-> 0, text |-> names[j] \o <<" ","="," ","N","o","n","e">>]
           /\ \A j \in (Len(names) + 1)..Len(out) : ~IsDeclaration(out[j])

C16_Witness ==
  /\ result.success
  /\ Len(result.ast.devices.devices) = 3
  /\ Len(Generate(result.ast)) = 3
  /\ LineTexts(Generate(result.ast))
       = << <<"t"," ","="," ","N","o","n","e">>,
            <<"f","a","n"," ","="," ","N","o","n","e">>,
            <<"t"," ","="," ","2","5">> >>

\* the calls the single-target alerts among the actions as are lowered
\* to, in order
RECURSIVE SingleAlerts(_)
SingleAlerts(as) ==
  IF as = <<>> THEN <<>>
  ELSE (IF as[1].node = "AlertAction" THEN LineTexts(GenAction(as[1], 0)) ELSE <<>>)
         \o SingleAlerts(Tail(as))

\* the call expected for the alert whose 'alerta' is token k: the message
\* is token k + 2; an observation, when given, follows a comma; the target
\* follows the closing parenthesis
ExpectedAlert(toks, k) ==
  IF toks[k + 3].type = "VIRGULA"
  THEN IF toks[k + 6].type = "PARA" THEN <<>>
       ELSE << <<"a","l","e","r","t","a","v","a","r","(","\"">> \o toks[k + 6].value.s
                 \o <<"\"",","," ","\"">> \o toks[k + 2].value.s
                 \o <<"\"",","," ","s","t","r","(">> \o toks[k + 4].value.s
                 \o <<")",")">> >>
  ELSE IF toks[k + 4].type = "PARA" THEN <<>>
       ELSE << <<"a","l","e","r","t","a","(","\"">> \o toks[k + 4].value.s
                 \o <<"\"",","," ","\"">> \o toks[k + 2].value.s \o <<"\"",")">> >>

\* the calls expected for the single-target alerts of the tokens from k on
RECURSIVE TokenSingleAlerts(_, _)
TokenSingleAlerts(toks, k) ==
  IF k > Len(toks) THEN <<>>
  ELSE (IF toks[k].type = "ALERTA" THEN ExpectedAlert(toks, k) ELSE <<>>)
         \o TokenSingleAlerts(toks, k + 1)

\* C17: an alert to one device without an observation is lowered to
\* alerta("device", "message"); with an observation it is lowered to
\* alertavar("device", "message", str(observation)), where the third
\* argument is the variable itself and not its name as a string
C17_AlertLowering ==
  result.success
    => SingleAlerts(ProgramActions(result.ast.commands.commands))
         = TokenSingleAlerts(tokens, 1)

C17_Witness ==
  /\ result.success
  /\ SingleAlerts(ProgramActions(result.ast.commands.commands))
       = << <<"a","l","e","r","t","a","(","\"","l","e","d","\"",","," ",
              "\"","h","i","\"",")">>,
            <<"a","l","e","r","t","a","v","a","r","(","\"","f","a","n","\"",","," ",
              "\"","h","i","\"",","," ","s","t","r","(","t",")",")">> >>

\* the texts of the assignments among the commands cmds, in order
RECURSIVE AttributionTexts(_)
AttributionTexts(cmds) ==
  IF cmds = <<>> THEN <<>>
  ELSE (IF cmds[1].node = "Attribution" THEN LineTexts(GenCommand(cmds[1])) ELSE <<>>)
         \o AttributionTexts(Tail(cmds))

\* the digits ds without their leading zeros; one digit always stays
RECURSIVE StripZeros(_)
StripZeros(ds) ==
  IF Len(ds) > 1 /\ ds[1] = "0" THEN StripZeros(Tail(ds)) ELSE ds

\* the characters of the literal token tok as the source txt writes them
SourceLiteral(txt, tok) ==
  IF tok.type = "NUM" THEN Slice(txt, tok.index, RunEnd(txt, tok.index, Digit))
  ELSE IF txt[tok.index + 1] = "t" THEN Slice(txt, tok.index, tok.index + 4)
  ELSE Slice(txt, tok.index, tok.index + 5)

\* the literal lit of the source as the claim renders it: the digits as
\* written, True for true, False for false
RenderAsWritten(lit) ==
  IF lit = <<"t","r","u","e">> THEN <<"T","r","u","e">>
  ELSE IF lit = <<"f","a","l","s","e">> THEN <<"F","a","l","s","e">>
  ELSE lit

\* the same, with the digits of an integer without their leading zeros
RenderByValue(lit) ==
  IF lit = <<"t","r","u","e">> THEN <<"T","r","u","e">>
  ELSE IF lit = <<"f","a","l","s","e">> THEN <<"F","a","l","s","e">>
  ELSE StripZeros(lit)

\* the assignments "set name = literal" of the tokens from k on, in source
\* order: the name and the literal as written
RECURSIVE TokenAttributions(_, _, _)
TokenAttributions(txt, toks, k) ==
  IF k > Len(toks) THEN <<>>
  ELSE (IF toks[k].type = "SET"
        THEN << [name |-> toks[k + 1].value.s,
                 literal |-> SourceLiteral(txt, toks[k + 3])] >>
        ELSE <<>>) \o TokenAttributions(txt, toks, k + 1)

\* C18 as stated: an integer literal written as the digits N is rendered
\* as the digits N, leading zeros included; true and false are rendered as
\* True and False
C18_LiteralAsWritten ==
  result.success
    => AttributionTexts(result.ast.commands.commands)
         = [j \in 1..Len(TokenAttributions(text, tokens, 1)) |->
              TokenAttributions(text, tokens, 1)[j].name \o <<" ","="," ">>
                \o RenderAsWritten(TokenAttributions(text, tokens, 1)[j].literal)]

\* C18 amended: an integer literal written as the digits N is rendered as
\* the decimal digits of its value, which are N without its leading zeros;
\* true and false are rendered as True and False, never as an integer
C18_LiteralByValue ==
  result.success
    => AttributionTexts(result.ast.commands.commands)
         = [j \in 1..Len(TokenAttributions(text, tokens, 1)) |->
              TokenAttributions(text, tokens, 1)[j].name \o <<" ","="," ">>
                \o RenderByValue(TokenAttributions(text, tokens, 1)[j].literal)]

C18_Witness ==
  /\ result.success
  /\ AttributionTexts(result.ast.commands.commands)
       = << <<"t"," ","="," ","2","5">>, <<"t"," ","="," ","F","a","l","s","e">> >>
  /\ \E k \in 1..Len(tokens) :
        tokens[k].type = "NUM" /\ SourceLiteral(text, tokens[k]) = <<"0","2","5">>

\* C19: after a syntax error in a command the cursor is moved from the
\* place of the error to the first token whose type is in the
\* synchronization set, skipping only tokens outside the set, and the
\* command loop goes on from that token, whichever type of the set it has
C19_ResumesAtEverySyncToken ==
  [][ ( /\ pc = "commands"
        /\ LoopCondition(tokens, pos)
        /\ ~CommandAndPeriod(tokens, pos).ok
        /\ CommandAndPeriod(tokens, pos).exc.exc = "ParseError" )
        => /\ pos' >= CommandAndPeriod(tokens, pos).pos
           /\ \A k \in (CommandAndPeriod(tokens, pos).pos + 1)..pos' :
                 tokens[k].type \notin {"DISPOSITIVO", "SET", "SE", "LIGAR",
                                        "DESLIGAR", "ENVIAR"}
           /\ pos' < Len(tokens)
                 => /\ tokens[pos' + 1].type \in {"DISPOSITIVO", "SET", "SE", "LIGAR",
                                                   "DESLIGAR", "ENVIAR"}
                    /\ pc' = "commands"
                    /\ LoopCondition(tokens, pos') ]_vars

\* how far a position of analyze is from its end
Rank(p) ==
  CASE p = "tokenize" -> 7
    [] p = "parse"    -> 6
    [] p = "devices"  -> 5
    [] p = "commands" -> 4
    [] p = "finish"   -> 3
    [] p = "handler"  -> 2
    [] p = "return"   -> 1
    [] p = "except"   -> 1
    [] p = "done"     -> 0

\* C20: parse terminates: every step of a call either moves to a position
\* nearer the end of the call or stays in its loop and moves the cursor
\* (the scan: the index) forward, and the cursor is bounded by the token
\* list; the cursor never moves backwards during a parse, and every
\* iteration of the command loop, one that ends in an error and synchronize
\* included, moves it forward by at least one token
C20_ParseTerminates ==
  [][ calls' = calls
        => /\ \/ Rank(pc') < Rank(pc)
              \/ pc' = pc /\ pc = "tokenize" /\ index' > index /\ index' <= Len(text)
              \/ pc' = pc /\ pc = "commands" /\ pos' > pos /\ pos' <= Len(tokens)
           /\ pc \in {"devices", "commands", "finish", "handler", "return", "except"}
                => (pos' >= pos /\ pos' <= Len(tokens) /\ tokens' = tokens)
           /\ (pc = "commands" /\ LoopCondition(tokens, pos))
                => pos' >= pos + 1 ]_vars

C20_Witness ==
  /\ pc = "done"
  /\ Len(tokens) > 8
  /\ pos = Len(tokens)
  /\ Len(errors) >= 2
  /\ ~result.success

\* position i (0-based) of the text lies inside a message literal
InsideMessage(toks, i) ==
  \E k \in 1..Len(toks) :
     /\ toks[k].type = "MSG"
     /\ toks[k].index < i
     /\ i < toks[k].index + Len(toks[k].value.s) + 2

\* a maximal run of letters, digits and underscores starts at i with a
\* letter, outside a message literal
WordStart(txt, toks, i) ==
  /\ i < Len(txt)
  /\ txt[i + 1] \in Letter
  /\ i > 0 => txt[i] \notin Letter \cup Digit \cup {"_"}
  /\ ~InsideMessage(toks, i)

\* the type the claim gives the word w
WordType(w) ==
  IF w \in {<<"t","r","u","e">>, <<"f","a","l","s","e">>} THEN "BOOL"
  ELSE IF w \in keywords THEN KeywordType(w)
  ELSE "OBSERVATION"

\* C21: a maximal run of letters, digits and underscores that starts with
\* a letter yields exactly one token, which covers the whole run: a keyword
\* or boolean token when the run is a reserved word, otherwise one
\* identifier whose value is the run; the run is never split
C21_WordIsOneToken ==
  pc = "parse"
    => \A i \in 0..(Len(text) - 1) :
          WordStart(text, scanned, i)
            => LET e == RunEnd(text, i, Letter \cup Digit \cup {"_"})
               IN  /\ \E k \in 1..Len(scanned) :
                         /\ scanned[k].index = i
                         /\ scanned[k].type = WordType(Slice(text, i, e))
                         /\ scanned[k].type = "OBSERVATION"
                               => scanned[k].value.s = Slice(text, i, e)
                   /\ \A k \in 1..Len(scanned) :
                         ~(scanned[k].index > i /\ scanned[k].index < e)

\* the number of newline characters among the first n characters of txt
RECURSIVE NewlinesBefore(_, _)
NewlinesBefore(txt, n) ==
  IF n = 0 THEN 0
  ELSE NewlinesBefore(txt, n - 1) + (IF txt[n] = "\n" THEN 1 ELSE 0)

\* C22: the line number of every token is 1 plus the number of newline
\* characters before the first character of the token, also when a message
\* literal before it holds newlines
C22_TokenLineCountsNewlines ==
  \A k \in 1..Len(scanned) :
     scanned[k].lineno = 1 + NewlinesBefore(text, scanned[k].index)

\* the illegal characters the scan of txt from index on reports, in order
RECURSIVE ReportsFrom(_, _, _)
ReportsFrom(txt, i, line) ==
  LET Rest(r) ==
        IF r.kind = "eof" THEN <<>>
        ELSE IF r.kind = "error"
        THEN <<r.tok.value.s>> \o ReportsFrom(txt, r.index, r.lineno)
        ELSE ReportsFrom(txt, r.index, r.lineno)
  IN  Rest(LexOne(txt, i, line))

\* txt with the character c put in before position p (0-based)
InsertAt(txt, p, c) == SubSeq(txt, 1, p) \o <<c>> \o SubSeq(txt, p + 1, Len(txt))

\* the kinds and values of the tokens toks
KindsAndValues(toks) ==
  [k \in 1..Len(toks) |-> [type |-> toks[k].type, value |-> toks[k].value]]

\* C23: a space, a tab or a carriage return put in between two tokens of
\* the source (in front of the second or a later token) changes neither
\* the kinds and values of the tokens nor the illegal characters that are
\* reported
C23_BlanksBetweenTokensAreNeutral ==
  pc = "parse"
    => \A c \in {" ", "\t", "\r"} :
          \A k \in 2..Len(scanned) :
             /\ KindsAndValues(Tokenize(InsertAt(text, scanned[k].index, c)))
                  = KindsAndValues(scanned)
             /\ ReportsFrom(InsertAt(text, scanned[k].index, c), 0, 1)
                  = [j \in 1..Len(reports) |-> reports[j].value.s]

\* the error record m carries the token tok as the token found, with its
\* kind, its value and its line, the expected type, and the suggestion that
\* belongs to the expected type
CarriesToken(m, tok) ==
  /\ m.foundType = tok.type
  /\ m.found = StrOfValue(tok.value)
  /\ m.line = tok.lineno
  /\ m.expected # tok.type
  /\ m.expected = "PONTO"
       => m.tag = "expected but found. Commands must end with a period (.)"
  /\ m.expected = "DOIS_PONTOS"
       => m.tag = "expected but found. Device declarations require a colon (:)"
  /\ m.expected = "IGUAL"
       => m.tag = "expected but found. Assignments require an equals sign (=)"
  /\ m.expected \notin {"PONTO", "DOIS_PONTOS", "IGUAL"}
       => m.tag = "expected but found"

\* C24: when a token of a given type is required and another token is
\* found, the error that is recorded carries the kind and value of the
\* token found, its line and the expected type, and for PONTO, DOIS_PONTOS
\* and IGUAL the suggestion about the period, the colon or the equals sign
C24_MismatchErrorCarriesToken ==
  [][ /\ ( /\ pc = "commands"
           /\ LoopCondition(tokens, pos)
           /\ ~CommandAndPeriod(tokens, pos).ok
           /\ CommandAndPeriod(tokens, pos).exc.expected # ""
           /\ HasToken(tokens, CommandAndPeriod(tokens, pos).pos) )
          => \E k \in 1..Len(errors') :
                /\ errors'[k].expected = CommandAndPeriod(tokens, pos).exc.expected
                /\ CarriesToken(errors'[k],
                                tokens[CommandAndPeriod(tokens, pos).pos + 1])
      /\ ( /\ pc = "handler"
           /\ raised.exc = "ParseError"
           /\ raised.expected # ""
           /\ HasToken(tokens, pos) )
          => /\ errors' # <<>>
             /\ errors'[Len(errors')].expected = raised.expected
             /\ CarriesToken(errors'[Len(errors')], tokens[pos + 1]) ]_vars

C24_Witness ==
  /\ pc = "done"
  /\ \E j, k \in 1..Len(errors) :
        /\ errors[j].expected = "PONTO"
        /\ errors[j].foundType = "SET"
        /\ errors[j].line > 1
        /\ errors[k].expected = "IGUAL"
        /\ errors[k].foundType = "NUM"
        /\ errors[k].found = <<"2","5">>
        /\ j < k
        /\ errors[k].line >= errors[j].line

\* the places (1-based) of the period tokens among the tokens from k on
RECURSIVE PeriodPlaces(_, _)
PeriodPlaces(toks, k) ==
  IF k > Len(toks) THEN <<>>
  ELSE (IF toks[k].type = "PONTO" THEN <<k>> ELSE <<>>) \o PeriodPlaces(toks, k + 1)

\* the cursor (0-based) of the first token from k on that starts a command
RECURSIVE FirstCommandAt(_, _)
FirstCommandAt(toks, k) ==
  IF k >= Len(toks) \/ toks[k + 1].type \in {"SET", "SE", "LIGAR", "DESLIGAR", "ENVIAR"}
  THEN k ELSE FirstCommandAt(toks, k + 1)

\* C25: in a Program that parse returns there are as many commands as the
\* input has period tokens; the commands are in source order, the k-th
\* command being the statement between the period before it (or the device
\* section) and the k-th period, which it reaches exactly
C25_OneCommandPerPeriod ==
  result.success
    => LET cmds == result.ast.commands.commands
           ps == PeriodPlaces(tokens, 1)
       IN  /\ Len(cmds) = Len(ps)
           /\ \A k \in 1..Len(ps) :
                 \E start \in {IF k = 1 THEN FirstCommandAt(tokens, 0) ELSE ps[k - 1]} :
                    /\ k <= Len(cmds)
                    /\ parse_command(tokens, start).ok
                    /\ parse_command(tokens, start).pos = ps[k] - 1
                    /\ parse_command(tokens, start).node = cmds[k]

C25_Witness ==
  /\ result.success
  /\ Len(PeriodPlaces(tokens, 1)) = 2
  /\ result.ast.commands.commands[1].node = "ObservationAction"
  /\ result.ast.commands.commands[2].node = "Attribution"
  /\ result.ast.commands.commands[2].line_number
       > result.ast.commands.commands[1].line_number

\* the tokens hold, from place k on, an alert whose parentheses hold a
\* message and an observation and that goes on with 'para todos :'
BroadcastWithObservationAt(toks, k) ==
  /\ k + 9 <= Len(toks)
  /\ [j \in 1..10 |-> toks[k + j - 1].type]
       = <<"ENVIAR", "ALERTA", "ABRE_PAREN", "MSG", "VIRGULA", "OBSERVATION",
           "FECHA_PAREN", "PARA", "TODOS", "DOIS_PONTOS">>

\* C26: a source with a broadcast alert of the shape
\* 'enviar alerta (msg, obs) para todos : d1, ...' is not derivable, so
\* its analysis reports a syntax error and returns no Program
C26_BroadcastTakesOnlyMessage ==
  (pc = "done" /\ \E k \in 1..Len(tokens) : BroadcastWithObservationAt(tokens, k))
    => /\ ~result.success
       /\ result.ast = NoneNode
       /\ result.errors # <<>>

\* C27: DeviceParser.parse either returns a Program or raises ParseError:
\* whenever parse is left by an exception, also for an input that ends
\* where a device name, a literal or an action is expected, the exception
\* is a ParseError
C27_ParseRaisesOnlyParseError ==
  pc = "except" => raised.exc = "ParseError"

\* C28: in every result that analyze returns, success is true exactly when
\* the AST is present and exactly when the list of errors is empty: a
\* failed analysis has at least one error and no AST
C28_SuccessIffAstIffNoErrors ==
  pc = "done"
    => /\ result.success <=> result.ast # NoneNode
       /\ result.success <=> result.errors = <<>>
       /\ result.ast # NoneNode <=> result.errors = <<>>

\* a processor whose first analysis succeeded and whose second one failed
C28_Witness ==
  /\ pc = "done"
  /\ calls = 2
  /\ previous.success /\ previous.ast.node = "Program" /\ previous.errors = <<>>
  /\ ~result.success /\ result.ast = NoneNode /\ Len(result.errors) = 1

\* C29: synchronize only moves the cursor forward.  In the step of the
\* command loop that handles a ParseError, the token list is the same
\* after it, the error list is the one add_error left (synchronize adds
\* nothing to it), every token between the place of the error and the new
\* cursor has a type outside the synchronization set, panic_mode is false,
\* and the cursor is at the end of the tokens or at a token of the set
C29_SynchronizeOnlyAdvances ==
  [][ ( /\ pc = "commands"
        /\ LoopCondition(tokens, pos)
        /\ CommandAndPeriod(tokens, pos).exc.exc = "ParseError" )
        => \E e \in {CommandAndPeriod(tokens, pos)} :
             /\ tokens' = tokens
             /\ errors' = add_error(errors, tokens, e.pos, StrOfError(e.exc))
             /\ e.pos <= pos' /\ pos' <= Len(tokens)
             /\ \A k \in (e.pos + 1)..pos' : tokens[k].type \notin sync_tokens
             /\ panic_mode' = FALSE
             /\ pos' = Len(tokens) \/ tokens[pos' + 1].type \in sync_tokens ]_vars

\* the error was found at the number of 'set t 25 .': the number and the
\* period were discarded and the cursor is at the 'dispositivo' after them
C29_Witness ==
  /\ pc = "commands"
  /\ ~panic_mode
  /\ Len(errors) = 1
  /\ errors[1].expected = "IGUAL" /\ errors[1].foundType = "NUM"
  /\ pos >= 2 /\ pos < Len(tokens)
  /\ tokens[pos - 1].type = "NUM"
  /\ tokens[pos].type = "PONTO"
  /\ tokens[pos + 1].type = "DISPOSITIVO"

\* the types the lexer gives to a word: an identifier, a reserved word or
\* a boolean literal
WordTypes ==
  {"OBSERVATION", "BOOL"} \cup { KeywordRules[k].type : k \in 1..Len(KeywordRules) }

\* C30: the lexer never emits NAMEDEVICE: every token that starts with a
\* letter, also one made of letters only, is an OBSERVATION, a reserved
\* word or a boolean, so wherever the parser accepts a device name in the
\* tokens it is an OBSERVATION token that it consumes
C30_NoNameDeviceToken ==
  /\ \A k \in 1..Len(scanned) :
        /\ scanned[k].type # "NAMEDEVICE"
        /\ text[scanned[k].index + 1] \in Letter => scanned[k].type \in WordTypes
  /\ \A p \in 0..Len(tokens) :
        device_name(tokens, p).ok => tokens[p + 1].type = "OBSERVATION"

\* a returned Program whose device 'led' was declared by a token made of
\* letters only, of type OBSERVATION
C30_Witness ==
  /\ result.success
  /\ Len(tokens) >= 3
  /\ tokens[1].type = "DISPOSITIVO"
  /\ tokens[3].type = "OBSERVATION"
  /\ tokens[3].value.s = <<"l","e","d">>
  /\ result.ast.devices.devices[1].name = <<"l","e","d">>

====
